---- MODULE Spec2Model ----
(***************************************************************************)
(* Agreezy: the chunk-aware document processing pipeline.                  *)
(*                                                                         *)
(* Strings are modelled run-length encoded: a text is a sequence of runs   *)
(* [c |-> character, n |-> count]; adjacent runs hold different characters *)
(* and every count is positive. The characters are two letters ("a", "b"), *)
(* the space ("sp"), the line feed ("nl") and the carriage return ("cr").  *)
(* Lengths and offsets are the program's own numbers.                      *)
(***************************************************************************)
EXTENDS Integers, Sequences, FiniteSets, TLC

\* ------------------------------------------------------------------------
\* Program constants (lib/chunker.js)
\* ------------------------------------------------------------------------
MAX_CHUNK_SIZE == 3500
CHUNK_OVERLAP == 200
MAX_DOCUMENT_SIZE == 50000

\* ------------------------------------------------------------------------
\* JavaScript string operations on run-length encoded texts
\* ------------------------------------------------------------------------
\* null / undefined: the one text holding an empty run, which no string has.
Null == <<[c |-> "null", n |-> 0]>>

Run(c, n) == [c |-> c, n |-> n]

IsWhitespace(c) == c \in {"sp", "nl", "cr"}

\* String.prototype.length
RECURSIVE StrLen(_)
StrLen(t) == IF t = <<>> THEN 0 ELSE Head(t).n + StrLen(Tail(t))

\* a + b: the runs meeting at the seam merge when they hold one character.
Concat(s, t) ==
  IF s = <<>> THEN t
  ELSE IF t = <<>> THEN s
  ELSE IF s[Len(s)].c = Head(t).c
       THEN SubSeq(s, 1, Len(s) - 1)
              \o <<Run(Head(t).c, s[Len(s)].n + Head(t).n)>>
              \o Tail(t)
       ELSE s \o t

RECURSIVE TrimStart(_)
TrimStart(t) ==
  IF t = <<>> THEN <<>>
  ELSE IF IsWhitespace(Head(t).c) THEN TrimStart(Tail(t)) ELSE t

RECURSIVE TrimEnd(_)
TrimEnd(t) ==
  IF t = <<>> THEN <<>>
  ELSE IF IsWhitespace(t[Len(t)].c) THEN TrimEnd(SubSeq(t, 1, Len(t) - 1)) ELSE t

\* String.prototype.trim
Trim(t) == TrimEnd(TrimStart(t))

\* String.prototype.slice(-k), k > 0: the last k characters, the whole
\* string when it is shorter.
RECURSIVE SliceLast(_, _)
SliceLast(t, k) ==
  IF t = <<>> \/ k <= 0 THEN <<>>
  ELSE LET l == t[Len(t)]
       IN IF l.n >= k THEN <<Run(l.c, k)>>
          ELSE SliceLast(SubSeq(t, 1, Len(t) - 1), k - l.n) \o <<l>>

\* String.prototype.substring(0, k): the first k characters.
RECURSIVE Prefix(_, _)
Prefix(t, k) ==
  IF t = <<>> \/ k <= 0 THEN <<>>
  ELSE LET h == Head(t)
       IN IF h.n >= k THEN <<Run(h.c, k)>>
          ELSE <<h>> \o Prefix(Tail(t), k - h.n)

\* String.prototype.startsWith
StartsWith(t, p) == Prefix(t, StrLen(p)) = p

\* text.split(/\n\n+|\r\n\r\n+/): scanning left to right, a run of two or
\* more line feeds is a separator, and so is CR LF CR followed by one or
\* more line feeds (the + binds the last line feed only). cur is the piece
\* being collected, out the pieces already cut.
RECURSIVE SplitFrom(_, _, _)
SplitFrom(t, cur, out) ==
  IF t = <<>> THEN Append(out, cur)
  ELSE LET h == Head(t)
       IN IF h.c = "nl" /\ h.n >= 2
          THEN SplitFrom(Tail(t), <<>>, Append(out, cur))
          ELSE IF /\ h.c = "cr"
                  /\ Len(t) >= 4
                  /\ t[2] = Run("nl", 1)
                  /\ t[3] = Run("cr", 1)
                  /\ t[4].c = "nl"
               THEN SplitFrom(SubSeq(t, 5, Len(t)), <<>>,
                              Append(out, IF h.n > 1
                                          THEN Append(cur, Run("cr", h.n - 1))
                                          ELSE cur))
               ELSE SplitFrom(Tail(t), Append(cur, h), out)

SplitParagraphSeparators(t) == SplitFrom(t, <<>>, <<>>)

RECURSIVE FilterNonEmpty(_)
FilterNonEmpty(ps) ==
  IF ps = <<>> THEN <<>>
  ELSE IF StrLen(Head(ps)) > 0
       THEN <<Head(ps)>> \o FilterNonEmpty(Tail(ps))
       ELSE FilterNonEmpty(Tail(ps))

splitIntoParagraphs(text) ==
  LET pieces == SplitParagraphSeparators(text)
  IN FilterNonEmpty([i \in 1..Len(pieces) |-> Trim(pieces[i])])

\* ------------------------------------------------------------------------
\* chunkContent (lib/chunker.js)
\* ------------------------------------------------------------------------
ParagraphSeparator == <<Run("nl", 2)>>

\* !content || content.trim().length === 0
IsBlank(content) == content = Null \/ StrLen(Trim(content)) = 0

Chunk(text, index, total, start, end) ==
  [text |-> text, index |-> index, total |-> total, start |-> start, end |-> end]

\* Mutant of ChunkLoopBody: the overlap is one character short.
ChunkLoopBody_ShortOverlap(st, para) ==
  LET potentialChunk ==
        IF st.currentChunk # <<>>
        THEN Concat(Concat(st.currentChunk, ParagraphSeparator), para)
        ELSE para
  IN IF StrLen(potentialChunk) > MAX_CHUNK_SIZE /\ StrLen(st.currentChunk) > 0
     THEN LET overlapText == SliceLast(st.currentChunk, CHUNK_OVERLAP - 1)
          IN [currentChunk |-> Concat(Concat(overlapText, ParagraphSeparator), para),
              chunkStartIndex |-> st.chunkStartIndex + StrLen(st.currentChunk) - CHUNK_OVERLAP,
              chunks |-> Append(st.chunks,
                                Chunk(st.currentChunk, Len(st.chunks), 0,
                                      st.chunkStartIndex,
                                      st.chunkStartIndex + StrLen(st.currentChunk)))]
     ELSE [st EXCEPT !.currentChunk = potentialChunk]

\* Mutant of ChunkLoopBody: the running chunk is closed as soon as the
\* paragraph would fill it to the limit.
ChunkLoopBody_SplitAtLimit(st, para) ==
  LET potentialChunk ==
        IF st.currentChunk # <<>>
        THEN Concat(Concat(st.currentChunk, ParagraphSeparator), para)
        ELSE para
  IN IF StrLen(potentialChunk) >= MAX_CHUNK_SIZE /\ StrLen(st.currentChunk) > 0
     THEN LET overlapText == SliceLast(st.currentChunk, CHUNK_OVERLAP)
          IN [currentChunk |-> Concat(Concat(overlapText, ParagraphSeparator), para),
              chunkStartIndex |-> st.chunkStartIndex + StrLen(st.currentChunk) - CHUNK_OVERLAP,
              chunks |-> Append(st.chunks,
                                Chunk(st.currentChunk, Len(st.chunks), 0,
                                      st.chunkStartIndex,
                                      st.chunkStartIndex + StrLen(st.currentChunk)))]
     ELSE [st EXCEPT !.currentChunk = potentialChunk]

\* One iteration of the paragraph loop. st holds the loop's variables:
\* currentChunk, chunkStartIndex and chunks.
ChunkLoopBody(st, para) ==
  LET potentialChunk ==
        IF st.currentChunk # <<>>
        THEN Concat(Concat(st.currentChunk, ParagraphSeparator), para)
        ELSE para
  IN IF StrLen(potentialChunk) > MAX_CHUNK_SIZE /\ StrLen(st.currentChunk) > 0
     THEN LET overlapText == SliceLast(st.currentChunk, CHUNK_OVERLAP)
          IN [currentChunk |-> Concat(Concat(overlapText, ParagraphSeparator), para),
              chunkStartIndex |-> st.chunkStartIndex + StrLen(st.currentChunk) - CHUNK_OVERLAP,
              chunks |-> Append(st.chunks,
                                Chunk(st.currentChunk, Len(st.chunks), 0,
                                      st.chunkStartIndex,
                                      st.chunkStartIndex + StrLen(st.currentChunk)))]
     ELSE [st EXCEPT !.currentChunk = potentialChunk]

RECURSIVE ChunkLoop(_, _, _)
ChunkLoop(paragraphs, i, st) ==
  IF i > Len(paragraphs) THEN st
  ELSE ChunkLoop(paragraphs, i + 1, ChunkLoopBody(st, paragraphs[i]))

\* Mutant of FinishChunks: the text still accumulated is not pushed.
FinishChunks_NoFinalPush(st) ==
  [i \in 1..Len(st.chunks) |-> [st.chunks[i] EXCEPT !.total = Len(st.chunks)]]

\* Mutant of FinishChunks: the total is taken before the final push.
FinishChunks_StaleTotal(st) ==
  LET chunks == IF StrLen(st.currentChunk) > 0
                THEN Append(st.chunks,
                            Chunk(st.currentChunk, Len(st.chunks), 0,
                                  st.chunkStartIndex,
                                  st.chunkStartIndex + StrLen(st.currentChunk)))
                ELSE st.chunks
      totalChunks == Len(st.chunks)
  IN [i \in 1..Len(chunks) |-> [chunks[i] EXCEPT !.total = totalChunks]]

\* The final push and the pass that sets every chunk's total.
FinishChunks(st) ==
  LET chunks == IF StrLen(st.currentChunk) > 0
                THEN Append(st.chunks,
                            Chunk(st.currentChunk, Len(st.chunks), 0,
                                  st.chunkStartIndex,
                                  st.chunkStartIndex + StrLen(st.currentChunk)))
                ELSE st.chunks
      totalChunks == Len(chunks)
  IN [i \in 1..Len(chunks) |-> [chunks[i] EXCEPT !.total = totalChunks]]

\* error.message: the text, the numbers it interpolates, and the prefixes
\* put in front of it by callers that rethrow.
Message(text) == [prefix |-> <<>>, text |-> text]

\* new Error(`${prefix}${error.message}`)
\* A catch that rethrows the error as it is
Wrap_Rethrow(prefix, e) == e

Wrap(prefix, e) == [e EXCEPT !.prefix = <<prefix>> \o @]

DocumentTooLong(length) ==
  [prefix |-> <<>>,
   text |-> "Document too long ({length} chars). Maximum supported: {limit} chars.",
   length |-> length, limit |-> MAX_DOCUMENT_SIZE]

Returned(v) == [threw |-> FALSE, value |-> v]
Thrown(msg) == [threw |-> TRUE, error |-> msg]

\* Mutant of chunkContent: the single-chunk return is missing, every
\* document goes through the paragraph loop.
chunkContent_NoSingleChunkReturn(content) ==
  IF IsBlank(content) THEN Returned(<<>>)
  ELSE LET trimmedContent == Trim(content)
       IN IF StrLen(trimmedContent) > MAX_DOCUMENT_SIZE
          THEN Thrown(DocumentTooLong(StrLen(trimmedContent)))
          ELSE Returned(FinishChunks(
                 ChunkLoop(splitIntoParagraphs(trimmedContent), 1,
                           [currentChunk |-> <<>>, chunkStartIndex |-> 0,
                            chunks |-> <<>>])))

chunkContent(content) ==
  IF IsBlank(content) THEN Returned(<<>>)
  ELSE LET trimmedContent == Trim(content)
       IN IF StrLen(trimmedContent) > MAX_DOCUMENT_SIZE
          THEN Thrown(DocumentTooLong(StrLen(trimmedContent)))
          ELSE IF StrLen(trimmedContent) <= MAX_CHUNK_SIZE
          THEN Returned(<<Chunk(trimmedContent, 0, 1, 0, StrLen(trimmedContent))>>)
          ELSE Returned(FinishChunks(
                 ChunkLoop(splitIntoParagraphs(trimmedContent), 1,
                           [currentChunk |-> <<>>, chunkStartIndex |-> 0,
                            chunks |-> <<>>])))

\* '' or `This is part ${index + 1} of ${total} of the document.`
getChunkContext(chunk) ==
  IF chunk.total = 1 THEN [empty |-> TRUE]
  ELSE [empty |-> FALSE, part |-> chunk.index + 1, of |-> chunk.total]

ContentTooLong(length) ==
  [prefix |-> <<>>,
   text |-> "Content too long ({length} chars). Maximum: {limit} chars.",
   length |-> length, limit |-> MAX_DOCUMENT_SIZE]

NoContent == Message("No content to process")

\* Mutant of validateContentLength: the ceiling is compared with >=.
validateContentLength_OffByOne(content) ==
  IF IsBlank(content) THEN [valid |-> FALSE, error |-> NoContent]
  ELSE LET length == StrLen(Trim(content))
       IN IF length >= MAX_DOCUMENT_SIZE
          THEN [valid |-> FALSE, error |-> ContentTooLong(length), length |-> length]
          ELSE [valid |-> TRUE, length |-> length]

validateContentLength(content) ==
  IF IsBlank(content) THEN [valid |-> FALSE, error |-> NoContent]
  ELSE LET length == StrLen(Trim(content))
       IN IF length > MAX_DOCUMENT_SIZE
          THEN [valid |-> FALSE, error |-> ContentTooLong(length), length |-> length]
          ELSE [valid |-> TRUE, length |-> length]


\* ------------------------------------------------------------------------
\* A top-level pipeline call: its state
\* ------------------------------------------------------------------------
\* The state of one call is a record s:
\*   pipeline, question, targetLanguage, sourceLanguage   the arguments
\*   sourceLanguageArg   sourceLanguage as passed (the function reassigns it)
\*   hasLanguageDetector, hasTranslator   typeof X !== 'undefined'
\*   summarizerHasReady   the summarizer has addEventListener and ready
\*   main          the async function called, tasks the per-chunk async
\*                 functions started by chunks.map; a thread is
\*                 [fn, gateway, await, session, arg, result, answers],
\*                 answers being how the engines settled what it awaited
\*   sessions      every engine object created: [kind, thread, destroyed,
\*                 destroys], destroys counting the calls of its destroy()
\*   calls         every engine request issued, in order; object is the
\*                 engine object the request is made on, 0 for a create
\*   outcome       what the call returned or threw, None while it runs
\*   arrivedOutOfOrder   a callback settled before the callback of an
\*                 earlier chunk
\*   validations, chunkings   calls of validateContentLength, chunkContent
\*   chunks, translatedChunks   locals of the pipeline
None == [pending |-> TRUE]

NoLanguage == "null"

IdleThread ==
  [fn |-> "", gateway |-> "", await |-> "idle", session |-> 0,
   arg |-> <<>>, result |-> None, answers |-> <<>>]

\* Thread 0 is the pipeline function itself, thread k the async callback
\* of chunk k - 1.
Thread(s, t) == IF t = 0 THEN s.main ELSE s.tasks[t]

SetThread(s, t, th) ==
  IF t = 0 THEN [s EXCEPT !.main = th] ELSE [s EXCEPT !.tasks[t] = th]

Await(s, t, what) == SetThread(s, t, [Thread(s, t) EXCEPT !.await = what])

\* An engine request leaves the extension.
Issue(s, t, api, op, input) ==
  [s EXCEPT !.calls = Append(@, [api |-> api, op |-> op, thread |-> t,
                                 fn |-> Thread(s, t).fn, input |-> input,
                                 object |-> IF op = "create" THEN 0
                                            ELSE Thread(s, t).session])]

\* An engine object (session, summarizer, detector, translator) exists.
NewSession(s, t, kind) ==
  LET id == Len(s.sessions) + 1
  IN SetThread([s EXCEPT !.sessions =
                  Append(@, [kind |-> kind, thread |-> t, destroyed |-> FALSE,
                             destroys |-> 0])],
               t, [Thread(s, t) EXCEPT !.session = id])

\* x.destroy() on the object the thread holds
Destroy(s, t) ==
  [s EXCEPT !.sessions[Thread(s, t).session].destroyed = TRUE,
            !.sessions[Thread(s, t).session].destroys = @ + 1]

\* The thread runs pipeline function fn, which calls gateway function gateway.
Enter(s, t, fn, gateway) ==
  SetThread(s, t, [Thread(s, t) EXCEPT !.fn = fn, !.gateway = gateway])

\* The thread's async function has returned or thrown.
Settle(s, t, r) ==
  SetThread([s EXCEPT !.arrivedOutOfOrder =
               @ \/ \E k \in 1..(t - 1) : s.tasks[k].await # "settled"],
            t, [Thread(s, t) EXCEPT !.await = "settled", !.result = r])

\* ------------------------------------------------------------------------
\* Model gateway (lib/ai-apis.js): the requests
\* ------------------------------------------------------------------------
EngineError == Message("engine error")

DefaultOptions == [temperature |-> "0.3", topK |-> 3]
FastOptions == [temperature |-> "0", topK |-> 1]

\* createPromptSession: LanguageModel.create({systemPrompt, temperature, topK})
createPromptSession(s, t, systemPrompt, options) ==
  Issue(Await(s, t, "LanguageModel.create"), t, "LanguageModel", "create",
        [systemPrompt |-> systemPrompt, options |-> options])

\* promptAPI(userPrompt, systemPrompt, options), up to its first await. The
\* user prompt waits in the thread until the session exists.
promptAPI(s, t, userPrompt, systemPrompt, options) ==
  createPromptSession(
    SetThread(s, t, [Thread(s, t) EXCEPT !.arg = userPrompt]),
    t, systemPrompt, options)

fastPromptAPI(s, t, userPrompt, systemPrompt) ==
  promptAPI(s, t, userPrompt, systemPrompt, FastOptions)

\* createSummarizer(options), up to its first await
createSummarizer(s, t, options) ==
  Issue(Await(s, t, "Summarizer.create"), t, "Summarizer", "create", options)

\* detectLanguage(text), up to its first await
detectLanguage(s, t, text) ==
  LET s1 == SetThread(s, t, [Thread(s, t) EXCEPT !.gateway = "detectLanguage",
                                                 !.arg = [text |-> text]])
  IN IF s.hasLanguageDetector
     THEN Issue(Await(s1, t, "LanguageDetector.create"), t,
                "LanguageDetector", "create", <<>>)
     ELSE promptAPI(s1, t, [text |-> Prefix(text, 500)],
                    [system |-> "language detector"], DefaultOptions)

\* Mutant of translateText: the completion is used whether or not there is
\* a Translator.
translateText_IgnoreTranslator(s, t, text, targetLanguage, sourceLanguage) ==
  promptAPI(SetThread(s, t, [Thread(s, t) EXCEPT !.gateway = "translateText",
                                                 !.arg = [text |-> text]]),
            t, [text |-> text],
            [system |-> "translator", targetLanguage |-> targetLanguage],
            DefaultOptions)

\* translateText(text, targetLanguage, sourceLanguage), up to its first await
translateText(s, t, text, targetLanguage, sourceLanguage) ==
  LET s1 == SetThread(s, t, [Thread(s, t) EXCEPT !.gateway = "translateText",
                                                 !.arg = [text |-> text]])
  IN IF s.hasTranslator
     THEN Issue(Await(s1, t, "Translator.create"), t, "Translator", "create",
                [sourceLanguage |-> IF sourceLanguage = NoLanguage
                                    THEN "en" ELSE sourceLanguage,
                 targetLanguage |-> targetLanguage])
     ELSE promptAPI(s1, t, [text |-> text],
                    [system |-> "translator", targetLanguage |-> targetLanguage],
                    DefaultOptions)

\* ------------------------------------------------------------------------
\* What the engines answer
\* ------------------------------------------------------------------------
\* Free text is opaque: the answer to a request is a value naming the request.
Summary(text) == [summaryOf |-> text]
Completion(userPrompt, systemPrompt) ==
  [completionOf |-> userPrompt, system |-> systemPrompt]
Translation(text, targetLanguage) == [translationOf |-> text, to |-> targetLanguage]

\* A completion that is meant to be JSON: form is how the text carries it
\* ("json" bare, "fenced" in a markdown block, "embedded" in a sentence,
\* "prose" not at all), value the JSON value it carries.
Json(form, value) == [form |-> form, value |-> value]
JsonArray(items) == [type |-> "array", items |-> items]
JsonObject(fields) == [type |-> "object", fields |-> fields]

KeyPoint(point, importance, category) ==
  [point |-> point, importance |-> importance, category |-> category]

\* A short text: key is the text lowercased and trimmed, shape what
\* distinguishes the text from its key ("plain" when nothing does).
PointText(key, shape) == [key |-> key, shape |-> shape]

\* text.toLowerCase().trim()
LowerTrim(text) == text.key

\* ------------------------------------------------------------------------
\* Shared utilities (lib/utils.js)
\* ------------------------------------------------------------------------
SyntaxError == Message("Unexpected token")

\* parseJSONResponse(response, type): the fences are stripped, the first
\* [...] or {...} is cut out, JSON.parse throws on what is no JSON.
parseJSONResponse(response, type) ==
  IF response.form = "prose" THEN Thrown(SyntaxError)
  ELSE Returned(response.value)

createJSONSystemPrompt == [system |-> "JSON generator"]

\* ------------------------------------------------------------------------
\* Summarization (lib/features/summarizer.js)
\* ------------------------------------------------------------------------
SummarizationFailed == "Summarization failed: "

Finish(s, r) == [Settle(s, 0, r) EXCEPT !.outcome = r]

\* summarizeSingleChunk(text, options), up to its first await
summarizeSingleChunk(s, t, text, options) ==
  createSummarizer(SetThread(s, t, [Thread(s, t) EXCEPT !.arg = text]), t,
                   [sharedContext |-> "This is a terms of service or privacy policy document",
                    type |-> options.type, format |-> options.format,
                    length |-> options.length])

\* The text a chunk's callback summarizes: the context line, when there is
\* one, a blank line, and the chunk's text.
TextToSummarize(chunk) == [context |-> getChunkContext(chunk), text |-> chunk.text]

\* The per-chunk callbacks of chunks.map, each run up to its first await.
RECURSIVE MapSummarize(_, _, _)
MapSummarize(s, chunks, k) ==
  IF k > Len(chunks) THEN s
  ELSE LET s1 == [s EXCEPT !.tasks = Append(@, IdleThread)]
           s2 == Enter(s1, k, "summarizeMultipleChunks", "summarizeSingleChunk")
       IN MapSummarize(summarizeSingleChunk(s2, k, TextToSummarize(chunks[k]), s.options),
                       chunks, k + 1)

\* Mutant of TaskValues: the values as they arrived, which is not the chunk
\* order when a later chunk's callback settled first.
TaskValues_AsArrived(s) ==
  [k \in 1..Len(s.tasks) |->
     s.tasks[IF s.arrivedOutOfOrder THEN Len(s.tasks) + 1 - k ELSE k].result.value]

\* What Promise.all resolved to: the tasks' values in chunk order.
TaskValues(s) == [k \in 1..Len(s.tasks) |-> s.tasks[k].result.value]

AllFulfilled(s) ==
  \A k \in 1..Len(s.tasks) :
    s.tasks[k].await = "settled" /\ ~s.tasks[k].result.threw

\* mergeSummaries(chunkSummaries, options), up to its first await
mergeSummaries(s, chunkSummaries, options) ==
  promptAPI(Enter([s EXCEPT !.collected = chunkSummaries], 0,
                  "mergeSummaries", "promptAPI"), 0,
            [parts |-> [k \in 1..Len(chunkSummaries) |->
                          [part |-> chunkSummaries[k].index + 1,
                           summary |-> chunkSummaries[k].summary]]],
            [system |-> "merge summaries", length |-> options.length,
             format |-> options.format],
            DefaultOptions)

\* The concatenation with the last summary first
ConcatenateSummaries_LastFirst(chunkSummaries) ==
  [joined |-> [k \in 1..Len(chunkSummaries) |->
                 chunkSummaries[Len(chunkSummaries) + 1 - k].summary],
   separator |-> ParagraphSeparator]

\* chunkSummaries.map(cs => cs.summary).join('\n\n')
ConcatenateSummaries(chunkSummaries) ==
  [joined |-> [k \in 1..Len(chunkSummaries) |-> chunkSummaries[k].summary],
   separator |-> ParagraphSeparator]

\* Mutant of SummariesSettled: the summaries in hand are merged as soon as
\* one callback is fulfilled.
SummariesSettled_MergeEarly(s, r) ==
  IF s.main.await # "Promise.all" THEN s
  ELSE IF r.threw THEN Finish(s, Thrown(Wrap(SummarizationFailed, r.error)))
  ELSE LET settled == SelectSeq(s.tasks, LAMBDA th : th.await = "settled")
       IN mergeSummaries(s, [k \in 1..Len(settled) |-> settled[k].result.value],
                         s.options)

\* Mutant of SummariesSettled: a failed chunk is left out and the summaries
\* of the others are merged once every callback has settled.
SummariesSettled_SkipFailed(s, r) ==
  IF s.main.await # "Promise.all" THEN s
  ELSE IF \A k \in 1..Len(s.tasks) : s.tasks[k].await = "settled"
  THEN LET fulfilled == SelectSeq(s.tasks, LAMBDA th : ~th.result.threw)
       IN mergeSummaries(s, [k \in 1..Len(fulfilled) |-> fulfilled[k].result.value],
                         s.options)
  ELSE s

\* summarizeMultipleChunks after a callback settled with r: Promise.all
\* rejects with the first rejection and resolves when all are fulfilled.
SummariesSettled(s, r) ==
  IF s.main.await # "Promise.all" THEN s
  ELSE IF r.threw THEN Finish(s, Thrown(Wrap(SummarizationFailed, r.error)))
  ELSE IF AllFulfilled(s) THEN mergeSummaries(s, TaskValues(s), s.options)
  ELSE s

summarizeMultipleChunks(s, chunks) ==
  LET s1 == MapSummarize(s, chunks, 1)
      s2 == Await(Enter(s1, 0, "summarizeMultipleChunks", "Promise.all"), 0,
                  "Promise.all")
  IN IF chunks = <<>> THEN mergeSummaries(s2, <<>>, s.options) ELSE s2

\* summarizeContent with the validation moved into the try block
summarizeContent_ValidateInTry(s) ==
  LET validation == validateContentLength(s.content)
      s1 == [s EXCEPT !.validations = @ + 1]
  IN IF ~validation.valid
     THEN Finish(s1, Thrown(Wrap(SummarizationFailed, validation.error)))
     ELSE LET r == chunkContent(s.content)
              s2 == [s1 EXCEPT !.chunkings = @ + 1, !.chunks = r.value]
          IN IF Len(r.value) = 1
             THEN summarizeSingleChunk(
                    Enter(s2, 0, "summarizeContent", "summarizeSingleChunk"),
                    0, r.value[1].text, s.options)
             ELSE summarizeMultipleChunks(s2, r.value)

\* summarizeContent(content, options), up to its first await
summarizeContent(s) ==
  LET content == s.content
      validation == validateContentLength(content)
      s1 == [s EXCEPT !.validations = @ + 1]
  IN IF ~validation.valid THEN Finish(s1, Thrown(validation.error))
     ELSE LET r == chunkContent(content)
              s2 == [s1 EXCEPT !.chunkings = @ + 1]
          IN IF r.threw
             THEN Finish(s2, Thrown(Wrap(SummarizationFailed, r.error)))
             ELSE LET s3 == [s2 EXCEPT !.chunks = r.value]
                  IN IF Len(r.value) = 1
                     THEN summarizeSingleChunk(
                            Enter(s3, 0, "summarizeContent", "summarizeSingleChunk"),
                            0, r.value[1].text, s.options)
                     ELSE summarizeMultipleChunks(s3, r.value)

\* ------------------------------------------------------------------------
\* Key points (lib/features/key-points.js)
\* ------------------------------------------------------------------------
KeyPointsFailed == "Key points extraction failed: "

ExtractionFailedPoint(chunkIndex) ==
  [point |-> PointText("unable to extract key points. please review the document manually.",
                       "capitalised"),
   importance |-> "high", category |-> "other", chunkIndex |-> chunkIndex]

\* extractKeyPointsFromChunk(chunk), up to its first await
extractKeyPointsFromChunk(s, t, chunk) ==
  fastPromptAPI(Enter(s, t, "extractKeyPointsFromChunk", "promptAPI"), t,
                [prompt |-> "extract key points",
                 context |-> getChunkContext(chunk), text |-> chunk.text],
                createJSONSystemPrompt)

RECURSIVE MapExtract(_, _, _)
MapExtract(s, chunks, k) ==
  IF k > Len(chunks) THEN s
  ELSE MapExtract(extractKeyPointsFromChunk([s EXCEPT !.tasks = Append(@, IdleThread)],
                                            k, chunks[k]),
                  chunks, k + 1)

\* extractKeyPointsFromChunk tagging its placeholder with index 0
KeyPointsOfChunk_FirstIndex(r, chunkIndex) ==
  IF r.threw THEN <<ExtractionFailedPoint(0)>>
  ELSE LET parsed == parseJSONResponse(r.value, "array")
       IN IF parsed.threw \/ parsed.value.type # "array"
          THEN <<ExtractionFailedPoint(0)>>
          ELSE [i \in 1..Len(parsed.value.items) |->
                  [point |-> parsed.value.items[i].point,
                   importance |-> parsed.value.items[i].importance,
                   category |-> parsed.value.items[i].category,
                   chunkIndex |-> chunkIndex]]

\* keyPoints.map(kp => ({ ...kp, chunkIndex })) in the try, the single
\* placeholder point in the catch.
KeyPointsOfChunk(r, chunkIndex) ==
  IF r.threw THEN <<ExtractionFailedPoint(chunkIndex)>>
  ELSE LET parsed == parseJSONResponse(r.value, "array")
       IN IF parsed.threw \/ parsed.value.type # "array"
          THEN <<ExtractionFailedPoint(chunkIndex)>>
          ELSE [i \in 1..Len(parsed.value.items) |->
                  [point |-> parsed.value.items[i].point,
                   importance |-> parsed.value.items[i].importance,
                   category |-> parsed.value.items[i].category,
                   chunkIndex |-> chunkIndex]]

\* chunkResults.flat()
RECURSIVE Flat(_)
Flat(lists) == IF lists = <<>> THEN <<>> ELSE Head(lists) \o Flat(Tail(lists))

ImportanceOrder(importance) ==
  CASE importance = "high" -> 0
    [] importance = "medium" -> 1
    [] importance = "low" -> 2

\* Mutant of UniquePoints: the last point of every normalized text is kept.
RECURSIVE UniquePoints_KeepLast(_, _, _)
UniquePoints_KeepLast(keyPoints, seen, uniquePoints) ==
  IF keyPoints = <<>> THEN uniquePoints
  ELSE LET kp == Head(keyPoints)
           rest == Tail(keyPoints)
       IN IF \E j \in 1..Len(rest) : LowerTrim(rest[j].point) = LowerTrim(kp.point)
          THEN UniquePoints_KeepLast(rest, seen, uniquePoints)
          ELSE UniquePoints_KeepLast(rest, seen, Append(uniquePoints, kp))

\* The loop of deduplicateSimple: the first point of every normalized text.
RECURSIVE UniquePoints(_, _, _)
UniquePoints(keyPoints, seen, uniquePoints) ==
  IF keyPoints = <<>> THEN uniquePoints
  ELSE LET kp == Head(keyPoints)
           normalized == LowerTrim(kp.point)
       IN IF normalized \notin seen
          THEN UniquePoints(Tail(keyPoints), seen \cup {normalized},
                            Append(uniquePoints, kp))
          ELSE UniquePoints(Tail(keyPoints), seen, uniquePoints)

\* Array.prototype.sort with the importance comparator (stable): the points
\* of rank 0, then of rank 1, then of rank 2, each in their order.
RECURSIVE SelectRank(_, _)
SelectRank(points, rank) ==
  IF points = <<>> THEN <<>>
  ELSE IF ImportanceOrder(Head(points).importance) = rank
       THEN <<Head(points)>> \o SelectRank(Tail(points), rank)
       ELSE SelectRank(Tail(points), rank)

\* A sort by importance that is not stable: equal ranks come out reversed.
RECURSIVE SelectRankReversed(_, _)
SelectRankReversed(points, rank) ==
  IF points = <<>> THEN <<>>
  ELSE IF ImportanceOrder(Head(points).importance) = rank
       THEN SelectRankReversed(Tail(points), rank) \o <<Head(points)>>
       ELSE SelectRankReversed(Tail(points), rank)

SortByImportance_Unstable(points) ==
  SelectRankReversed(points, 0) \o SelectRankReversed(points, 1)
    \o SelectRankReversed(points, 2)

SortByImportance(points) ==
  SelectRank(points, 0) \o SelectRank(points, 1) \o SelectRank(points, 2)

\* Array.prototype.slice(0, n)
Take(seq, n) == SubSeq(seq, 1, IF Len(seq) < n THEN Len(seq) ELSE n)

deduplicateSimple(keyPoints) ==
  Take(SortByImportance(UniquePoints(keyPoints, {}, <<>>)), 10)

\* formatKeyPoints: the text is modelled by its lines (the pieces between
\* line feeds): a header "### <icon> <label>", a bullet "- <point>", an empty
\* line, or the fixed sentence.
categoryLabels ==
  [privacy |-> "Privacy", data |-> "Data Collection", rights |-> "Your Rights",
   legal |-> "Legal Terms", financial |-> "Payment & Billing", other |-> "General"]

categoryIcons ==
  [privacy |-> "lock", data |-> "bar chart", rights |-> "scales",
   legal |-> "scroll", financial |-> "money bag", other |-> "pushpin"]

HeaderLine(category) ==
  [line |-> "header",
   icon |-> IF category \in DOMAIN categoryIcons THEN categoryIcons[category]
            ELSE "bullet",
   label |-> IF category \in DOMAIN categoryLabels THEN categoryLabels[category]
             ELSE category]

BulletLine(kp) == [line |-> "bullet", point |-> kp.point]

EmptyLine == [line |-> "empty"]

NoKeyPointsFound == <<[line |-> "text", text |-> "No key points found."]>>

\* The category taken as it is, missing or not
CategoryOf_AsGiven(kp) == kp.category

\* kp.category || 'other': a missing category is the empty string here
CategoryOf(kp) == IF kp.category = "" THEN "other" ELSE kp.category

\* The keys of grouped in the order Object.entries gives them: the order in
\* which they were first assigned (none of them is an integer index).
RECURSIVE GroupedKeys(_, _)
GroupedKeys(keyPoints, keys) ==
  IF keyPoints = <<>> THEN keys
  ELSE LET category == CategoryOf(Head(keyPoints))
       IN GroupedKeys(Tail(keyPoints),
                      IF \E i \in 1..Len(keys) : keys[i] = category THEN keys
                      ELSE Append(keys, category))

\* grouped[category]
Grouped(keyPoints, category) ==
  SelectSeq(keyPoints, LAMBDA kp : CategoryOf(kp) = category)

\* "- <point>\n\n" for every point of the category
RECURSIVE BulletLines(_)
BulletLines(points) ==
  IF points = <<>> THEN <<>>
  ELSE <<BulletLine(Head(points)), EmptyLine>> \o BulletLines(Tail(points))

\* "### <icon> <label>\n\n", the bullets, "\n"
SectionLines(category, points) ==
  <<HeaderLine(category), EmptyLine>> \o BulletLines(points) \o <<EmptyLine>>

RECURSIVE AllSectionLines(_, _)
AllSectionLines(keyPoints, keys) ==
  IF keys = <<>> THEN <<>>
  ELSE SectionLines(Head(keys), Grouped(keyPoints, Head(keys)))
         \o AllSectionLines(keyPoints, Tail(keys))

\* String.prototype.trim on a text that begins with "###" and ends with
\* line feeds: the empty lines at the end go.
RECURSIVE TrimLines(_)
TrimLines(lines) ==
  IF lines # <<>> /\ lines[Len(lines)] = EmptyLine
  THEN TrimLines(SubSeq(lines, 1, Len(lines) - 1))
  ELSE lines

formatKeyPoints(keyPoints) ==
  IF keyPoints = Null \/ Len(keyPoints) = 0 THEN NoKeyPointsFound
  ELSE TrimLines(AllSectionLines(keyPoints, GroupedKeys(keyPoints, <<>>)))

\* deduplicateAndRankKeyPoints(keyPoints), up to its first await
deduplicateAndRankKeyPoints(s, keyPoints) ==
  IF Len(keyPoints) = 0 THEN Finish(s, Returned(<<>>))
  ELSE fastPromptAPI(Enter([s EXCEPT !.collected = keyPoints], 0,
                           "deduplicateAndRankKeyPoints", "promptAPI"), 0,
                     [prompt |-> "deduplicate key points", points |-> keyPoints],
                     createJSONSystemPrompt)

\* extractKeyPoints after a callback settled: the callbacks never reject.
KeyPointsSettled(s) ==
  IF s.main.await # "Promise.all" \/ ~AllFulfilled(s) THEN s
  ELSE LET allKeyPoints == Flat(TaskValues(s))
       IN IF Len(s.chunks) > 1
          THEN deduplicateAndRankKeyPoints(s, allKeyPoints)
          ELSE Finish(s, Returned(allKeyPoints))

\* extractKeyPoints(content), up to its first await
extractKeyPoints(s) ==
  LET content == s.content
      validation == validateContentLength(content)
      s1 == [s EXCEPT !.validations = @ + 1]
  IN IF ~validation.valid THEN Finish(s1, Thrown(validation.error))
     ELSE LET r == chunkContent(content)
              s2 == [s1 EXCEPT !.chunkings = @ + 1]
          IN IF r.threw
             THEN Finish(s2, Thrown(Wrap(KeyPointsFailed, r.error)))
             ELSE KeyPointsSettled(
                    Await(Enter(MapExtract([s2 EXCEPT !.chunks = r.value], r.value, 1),
                                0, "extractKeyPoints", "Promise.all"),
                          0, "Promise.all"))

\* ------------------------------------------------------------------------
\* Translation (lib/features/translator.js)
\* ------------------------------------------------------------------------
TranslationFailed == "Translation failed: "

\* Array.prototype.sort((a, b) => a.index - b.index), stable
RECURSIVE InsertByIndex(_, _)
InsertByIndex(sorted, x) ==
  IF sorted = <<>> THEN <<x>>
  ELSE IF x.index < Head(sorted).index THEN <<x>> \o sorted
       ELSE <<Head(sorted)>> \o InsertByIndex(Tail(sorted), x)

RECURSIVE SortByIndex(_)
SortByIndex(items) ==
  IF items = <<>> THEN <<>>
  ELSE InsertByIndex(SortByIndex(SubSeq(items, 1, Len(items) - 1)), items[Len(items)])

\* The join with the chunks sorted by descending index
JoinTranslations_Descending(translatedChunks) ==
  LET sorted == SortByIndex(translatedChunks)
  IN [joined |-> [k \in 1..Len(sorted) |-> sorted[Len(sorted) + 1 - k].translatedText],
      separator |-> ParagraphSeparator]

\* translatedChunks.sort(...).map(tc => tc.translatedText).join('\n\n')
JoinTranslations(translatedChunks) ==
  LET sorted == SortByIndex(translatedChunks)
  IN [joined |-> [k \in 1..Len(sorted) |-> sorted[k].translatedText],
      separator |-> ParagraphSeparator]

\* The loop reporting the number of chunks and the same-language note
TranslateChunks_WithNote(s, k) ==
  IF k > Len(s.chunks)
  THEN Finish(s, Returned([translatedText |-> JoinTranslations(s.translatedChunks),
                           sourceLanguage |-> s.sourceLanguage,
                           targetLanguage |-> s.targetLanguage,
                           chunksProcessed |-> Len(s.chunks),
                           note |-> "Content is already in the target language"]))
  ELSE translateText(Enter([s EXCEPT !.loopIndex = k], 0,
                           "translateContent", "translateText"),
                     0, s.chunks[k].text, s.targetLanguage, s.sourceLanguage)

\* Mutant of TranslateChunks: the chunk is handed to translateText twice
\* before the loop awaits.
TranslateChunks_TwoInFlight(s, k) ==
  IF k > Len(s.chunks)
  THEN Finish(s, Returned([translatedText |-> JoinTranslations(s.translatedChunks),
                           sourceLanguage |-> s.sourceLanguage,
                           targetLanguage |-> s.targetLanguage,
                           chunksProcessed |-> Len(s.chunks)]))
  ELSE translateText(
         translateText(Enter([s EXCEPT !.loopIndex = k], 0,
                             "translateContent", "translateText"),
                       0, s.chunks[k].text, s.targetLanguage, s.sourceLanguage),
         0, s.chunks[k].text, s.targetLanguage, s.sourceLanguage)

\* The for loop, from chunk k (counted from 1) up to the next await, and
\* the return after the last chunk.
TranslateChunks(s, k) ==
  IF k > Len(s.chunks)
  THEN Finish(s, Returned([translatedText |-> JoinTranslations(s.translatedChunks),
                           sourceLanguage |-> s.sourceLanguage,
                           targetLanguage |-> s.targetLanguage,
                           chunksProcessed |-> Len(s.chunks)]))
  ELSE translateText(Enter([s EXCEPT !.loopIndex = k], 0,
                           "translateContent", "translateText"),
                     0, s.chunks[k].text, s.targetLanguage, s.sourceLanguage)

\* translateContent without the same-language return
translateContentFrom_AlwaysTranslate(s) ==
  LET r == chunkContent(s.content)
      s1 == [s EXCEPT !.chunkings = @ + 1]
  IN IF r.threw THEN Finish(s1, Thrown(Wrap(TranslationFailed, r.error)))
     ELSE TranslateChunks([s1 EXCEPT !.chunks = r.value,
                                     !.translatedChunks = <<>>], 1)

\* translateContent once the source language is known
translateContentFrom(s) ==
  IF s.sourceLanguage = s.targetLanguage
  THEN Finish(s, Returned([translatedText |-> s.content,
                           sourceLanguage |-> s.sourceLanguage,
                           targetLanguage |-> s.targetLanguage,
                           note |-> "Content is already in the target language"]))
  ELSE LET r == chunkContent(s.content)
           s1 == [s EXCEPT !.chunkings = @ + 1]
       IN IF r.threw THEN Finish(s1, Thrown(Wrap(TranslationFailed, r.error)))
          ELSE TranslateChunks([s1 EXCEPT !.chunks = r.value,
                                          !.translatedChunks = <<>>], 1)

\* translateContent(content, targetLanguage, sourceLanguage), up to its
\* first await
translateContent(s) ==
  LET validation == validateContentLength(s.content)
      s1 == [s EXCEPT !.validations = @ + 1]
  IN IF ~validation.valid THEN Finish(s1, Thrown(validation.error))
     ELSE IF s.sourceLanguage = NoLanguage
          THEN detectLanguage(Enter(s1, 0, "translateContent", "detectLanguage"),
                              0, s.content)
          ELSE translateContentFrom(s1)

\* ------------------------------------------------------------------------
\* Question answering (lib/features/qa.js)
\* ------------------------------------------------------------------------
QAFailed == "Q&A failed: "

NotFoundAnswer ==
  [fixed |-> "I couldn't find relevant information in the document to answer this question."]

\* question.toLowerCase().split(/\s+/): the maximal stretches without
\* whitespace (and the empty strings at the ends, which have no length).
RECURSIVE SplitWords(_, _, _)
SplitWords(t, cur, out) ==
  IF t = <<>> THEN Append(out, cur)
  ELSE IF IsWhitespace(Head(t).c)
       THEN SplitWords(Tail(t), <<>>, Append(out, cur))
       ELSE SplitWords(Tail(t), Append(cur, Head(t)), out)

\* text.includes(kw), kw not empty
Includes(text, kw) ==
  LET m == Len(kw)
  IN \E i \in 1..(Len(text) - m + 1) :
       /\ text[i].c = kw[1].c
       /\ text[i + m - 1].c = kw[m].c
       /\ IF m = 1 THEN text[i].n >= kw[1].n
          ELSE /\ text[i].n >= kw[1].n
               /\ text[i + m - 1].n >= kw[m].n
               /\ \A j \in 2..(m - 1) : text[i + j - 1] = kw[j]

Min(a, b) == IF a < b THEN a ELSE b

\* Mutant of keywordMatchScore: words of two characters count as keywords.
keywordMatchScore_ShortWords(question, text) ==
  LET words == SplitWords(question, <<>>, <<>>)
      keywords == {i \in 1..Len(words) : StrLen(words[i]) >= 2}
      matches == Cardinality({i \in keywords : Includes(text, words[i])})
  IN [score |-> Min(10, matches * 2), reasoning |-> "Keyword matching fallback"]

keywordMatchScore(question, text) ==
  LET words == SplitWords(question, <<>>, <<>>)
      keywords == {i \in 1..Len(words) : StrLen(words[i]) > 3}
      matches == Cardinality({i \in keywords : Includes(text, words[i])})
  IN [score |-> Min(10, matches * 2), reasoning |-> "Keyword matching fallback"]

\* answerFromChunk(text, question), up to its first await
answerFromChunk(s, text, question) ==
  promptAPI(Enter(s, 0, "answerFromChunk", "promptAPI"), 0,
            [document |-> text, question |-> question],
            [system |-> "answer from the document"], DefaultOptions)

\* assessChunkRelevance(chunk, question), up to its first await
assessChunkRelevance(s, t, chunk, question) ==
  fastPromptAPI(Enter(s, t, "assessChunkRelevance", "promptAPI"), t,
                [prompt |-> "rate relevance", question |-> question,
                 part |-> chunk.index + 1, of |-> chunk.total,
                 text |-> Prefix(chunk.text, 1000)],
                createJSONSystemPrompt)

RECURSIVE MapAssess(_, _, _)
MapAssess(s, chunks, k) ==
  IF k > Len(chunks) THEN s
  ELSE MapAssess(assessChunkRelevance([s EXCEPT !.tasks = Append(@, IdleThread)],
                                      k, chunks[k], s.question),
                 chunks, k + 1)

\* What assessChunkRelevance returns when its completion gave r: the
\* parsed score and reasoning, the keyword score when anything threw
\* (reading a field of null throws).
RelevanceOfChunk(r, chunk, question) ==
  IF r.threw THEN keywordMatchScore(question, chunk.text)
  ELSE LET parsed == parseJSONResponse(r.value, "object")
       IN IF parsed.threw \/ parsed.value.type = "null"
          THEN keywordMatchScore(question, chunk.text)
          ELSE LET fields == IF parsed.value.type = "object"
                             THEN parsed.value.fields ELSE [none |-> 0]
               IN [score |-> IF "score" \in DOMAIN fields THEN fields.score ELSE 0,
                   reasoning |-> IF "reasoning" \in DOMAIN fields
                                 THEN fields.reasoning ELSE ""]

\* Array.prototype.sort((a, b) => b.score - a.score), stable
RECURSIVE InsertByScore(_, _)
InsertByScore(sorted, x) ==
  IF sorted = <<>> THEN <<x>>
  ELSE IF x.score > Head(sorted).score THEN <<x>> \o sorted
       ELSE <<Head(sorted)>> \o InsertByScore(Tail(sorted), x)

RECURSIVE SortByScore(_)
SortByScore(items) ==
  IF items = <<>> THEN <<>>
  ELSE InsertByScore(SortByScore(SubSeq(items, 1, Len(items) - 1)), items[Len(items)])

\* The filter letting a score of 0 through
RECURSIVE SelectPositive_ZeroToo(_)
SelectPositive_ZeroToo(items) ==
  IF items = <<>> THEN <<>>
  ELSE IF Head(items).score >= 0
       THEN <<Head(items).chunk>> \o SelectPositive_ZeroToo(Tail(items))
       ELSE SelectPositive_ZeroToo(Tail(items))

RECURSIVE SelectPositive(_)
SelectPositive(items) ==
  IF items = <<>> THEN <<>>
  ELSE IF Head(items).score > 0
       THEN <<Head(items).chunk>> \o SelectPositive(Tail(items))
       ELSE SelectPositive(Tail(items))

\* Mutant of RelevantChunks: every chunk with a score above 0, however many.
RelevantChunks_NoLimit(chunkRelevance) == SelectPositive(SortByScore(chunkRelevance))

\* findRelevantChunks once every assessment is in
RelevantChunks(chunkRelevance) == SelectPositive(Take(SortByScore(chunkRelevance), 3))

\* answerFromMultipleChunks after a callback settled: the callbacks never
\* reject.
RelevanceSettled(s) ==
  IF s.main.await # "Promise.all" \/ ~AllFulfilled(s) THEN s
  ELSE LET relevantChunks == RelevantChunks(TaskValues(s))
       IN IF Len(relevantChunks) = 0 THEN Finish(s, Returned(NotFoundAnswer))
          ELSE answerFromChunk(s, [k \in 1..Len(relevantChunks) |->
                                     [part |-> relevantChunks[k].index + 1,
                                      text |-> relevantChunks[k].text]],
                               s.question)

\* answerQuestion with the content validated before the question is looked at
answerQuestion_ContentFirst(s) ==
  LET validation == validateContentLength(s.content)
      s1 == [s EXCEPT !.validations = @ + 1]
  IN IF ~validation.valid THEN Finish(s1, Thrown(validation.error))
     ELSE IF IsBlank(s.question)
     THEN Finish(s1, Thrown(Message("Please provide a question")))
     ELSE LET r == chunkContent(s.content)
              s2 == [s1 EXCEPT !.chunkings = @ + 1, !.chunks = r.value]
          IN IF Len(r.value) = 1
             THEN answerFromChunk(s2, r.value[1].text, s.question)
             ELSE RelevanceSettled(
                    Await(Enter(MapAssess(s2, r.value, 1),
                                0, "answerFromMultipleChunks", "Promise.all"),
                          0, "Promise.all"))

\* answerQuestion(content, question), up to its first await
answerQuestion(s) ==
  IF IsBlank(s.question) THEN Finish(s, Thrown(Message("Please provide a question")))
  ELSE LET validation == validateContentLength(s.content)
           s1 == [s EXCEPT !.validations = @ + 1]
       IN IF ~validation.valid THEN Finish(s1, Thrown(validation.error))
          ELSE LET r == chunkContent(s.content)
                   s2 == [s1 EXCEPT !.chunkings = @ + 1]
               IN IF r.threw THEN Finish(s2, Thrown(Wrap(QAFailed, r.error)))
                  ELSE IF Len(r.value) = 1
                  THEN answerFromChunk([s2 EXCEPT !.chunks = r.value],
                                       r.value[1].text, s.question)
                  ELSE RelevanceSettled(
                         Await(Enter(MapAssess([s2 EXCEPT !.chunks = r.value], r.value, 1),
                                     0, "answerFromMultipleChunks", "Promise.all"),
                               0, "Promise.all"))

\* The list getSuggestedQuestions returns from its catch.
GenericQuestions ==
  << "What personal data is collected?",
     "How is my data shared with third parties?",
     "Can I delete my account and data?",
     "What are my privacy rights?",
     "Are there any important restrictions I should know about?" >>

\* Reading a property of null or undefined
TypeError == Message("Cannot read properties of null")

\* getSuggestedQuestions(content), up to its first await: the preview is
\* cut before the try.
getSuggestedQuestions(s) ==
  IF s.content = Null THEN Finish(s, Thrown(TypeError))
  ELSE fastPromptAPI(Enter(s, 0, "getSuggestedQuestions", "promptAPI"), 0,
                     [prompt |-> "suggest questions",
                      preview |-> Prefix(s.content, 2000)],
                     createJSONSystemPrompt)

\* ------------------------------------------------------------------------
\* After an await: the pipeline function goes on with what the gateway
\* function returned or threw
\* ------------------------------------------------------------------------
\* The value of a parsed JSON text: an array is a list, anything else itself.
JsValue(json) == IF json.type = "array" THEN json.items ELSE json

Resume(s, t, r) ==
  LET th == Thread(s, t)
  IN CASE th.fn = "summarizeContent" ->
            \* summarizer.js 28-36: return await ..., catch and prefix
            Finish(s, IF r.threw THEN Thrown(Wrap(SummarizationFailed, r.error)) ELSE r)
       [] th.fn = "summarizeMultipleChunks" ->
            \* summarizer.js 64-73: the callback returns {index, summary}
            LET r1 == IF r.threw THEN r
                      ELSE Returned([index |-> s.chunks[t].index, summary |-> r.value])
            IN SummariesSettled(Settle(s, t, r1), r1)
       [] th.fn = "mergeSummaries" ->
            \* summarizer.js 103-108: the merged text, the concatenation in the catch
            Finish(s, IF r.threw THEN Returned(ConcatenateSummaries(s.collected)) ELSE r)
       [] th.fn = "extractKeyPointsFromChunk" ->
            KeyPointsSettled(
              Settle(s, t, Returned(KeyPointsOfChunk(r, s.chunks[t].index))))
       [] th.fn = "deduplicateAndRankKeyPoints" ->
            \* key-points.js 101-107: the parsed list, deduplicateSimple in the catch
            LET parsed == IF r.threw THEN r ELSE parseJSONResponse(r.value, "array")
            IN Finish(s, Returned(IF parsed.threw THEN deduplicateSimple(s.collected)
                                  ELSE JsValue(parsed.value)))
       [] th.fn = "translateContent" /\ th.gateway = "detectLanguage" ->
            \* translator.js 220-223: sourceLanguage = await detectLanguage(content)
            translateContentFrom([s EXCEPT !.sourceLanguage = r.value])
       [] th.fn = "translateContent" /\ th.gateway = "translateText" ->
            \* translator.js 240-250 and the catch 261-263
            IF r.threw THEN Finish(s, Thrown(Wrap(TranslationFailed, r.error)))
            ELSE TranslateChunks(
                   [s EXCEPT !.translatedChunks =
                      Append(@, [index |-> s.chunks[s.loopIndex].index,
                                 translatedText |-> r.value])],
                   s.loopIndex + 1)
       [] th.fn = "answerFromChunk" ->
            \* qa.js 25-37: return await ..., catch and prefix
            Finish(s, IF r.threw THEN Thrown(Wrap(QAFailed, r.error)) ELSE r)
       [] th.fn = "getSuggestedQuestions" ->
            \* qa.js 153-166: the parsed list, the generic questions in the catch
            LET parsed == IF r.threw THEN r ELSE parseJSONResponse(r.value, "array")
            IN Finish(s, Returned(IF parsed.threw THEN GenericQuestions
                                  ELSE JsValue(parsed.value)))
       [] th.fn = "assessChunkRelevance" ->
            LET rel == RelevanceOfChunk(r, s.chunks[t], s.question)
            IN RelevanceSettled(
                 Settle(s, t, Returned([chunk |-> s.chunks[t], score |-> rel.score,
                                        reasoning |-> rel.reasoning])))

\* ------------------------------------------------------------------------
\* Model gateway (lib/ai-apis.js): after each await
\* ------------------------------------------------------------------------
\* promptAPI returned or threw r: the gateway function that called it, if
\* one did, goes on.
promptAPIReturns(s, t, r) ==
  LET th == Thread(s, t)
  IN CASE th.gateway = "detectLanguage" ->
            \* the fallback's result.trim().toLowerCase(), 'en' in the catch
            Resume(s, t, Returned(IF r.threw THEN "en" ELSE LowerTrim(r.value)))
       [] th.gateway = "translateText" ->
            Resume(s, t, IF r.threw THEN Thrown(Wrap(TranslationFailed, r.error)) ELSE r)
       [] OTHER -> Resume(s, t, r)

\* LanguageModel.create settled: session.prompt is issued, or
\* createPromptSession throws out of promptAPI.
OnLanguageModelCreate(s, t, ok) ==
  IF ok
  THEN Issue(Await(NewSession(s, t, "LanguageModel"), t, "session.prompt"),
             t, "LanguageModel", "prompt", Thread(s, t).arg)
  ELSE promptAPIReturns(s, t,
         Thrown(Wrap("Failed to create Prompt API session: ", EngineError)))

\* session.prompt settled: finally { session.destroy() }
\* promptAPI catching a rejected prompt and returning an empty completion
OnPrompt_Swallow(s, t, r) ==
  promptAPIReturns(Destroy(s, t), t,
                   IF r.threw
                   THEN Returned([form |-> "prose", value |-> [type |-> "null"],
                                  key |-> ""])
                   ELSE r)

\* Mutant of OnPrompt: the session is destroyed after a fulfilled prompt only.
OnPrompt_DestroyOnSuccess(s, t, r) ==
  promptAPIReturns(IF r.threw THEN s ELSE Destroy(s, t), t, r)

\* Mutant of OnPrompt: a rejected prompt is issued once more on the session.
OnPrompt_RetryOnce(s, t, r) ==
  IF /\ r.threw
     /\ Cardinality({j \in 1..Len(Thread(s, t).answers) :
                       Thread(s, t).answers[j].await = "session.prompt"}) < 2
  THEN Issue(Await(s, t, "session.prompt"), t, "LanguageModel", "prompt",
             Thread(s, t).arg)
  ELSE promptAPIReturns(Destroy(s, t), t, r)

OnPrompt(s, t, r) == promptAPIReturns(Destroy(s, t), t, r)

SummarizerFailed == "Failed to create summarizer: "

\* summarizeSingleChunk with the summarizer in hand
Summarize(s, t) ==
  Issue(Await(s, t, "summarizer.summarize"), t, "Summarizer", "summarize",
        Thread(s, t).arg)

\* Summarizer.create settled
OnSummarizerCreate(s, t, ok) ==
  IF ~ok THEN Resume(s, t, Thrown(Wrap(SummarizerFailed, EngineError)))
  ELSE LET s1 == NewSession(s, t, "Summarizer")
       IN IF s.summarizerHasReady THEN Await(s1, t, "summarizer.ready")
          ELSE Summarize(s1, t)

\* summarizer.ready settled: a rejection leaves createSummarizer through its
\* catch, the summarizer is not handed to anyone.
OnSummarizerReady(s, t, ok) ==
  IF ok THEN Summarize(s, t)
  ELSE Resume(s, t, Thrown(Wrap(SummarizerFailed, EngineError)))

\* summarizer.summarize settled: finally { summarizer.destroy() }
OnSummarize(s, t, r) == Resume(Destroy(s, t), t, r)

\* LanguageDetector.create settled
OnLanguageDetectorCreate(s, t, ok) ==
  IF ok
  THEN Issue(Await(NewSession(s, t, "LanguageDetector"), t, "detector.detect"),
             t, "LanguageDetector", "detect", Thread(s, t).arg)
  ELSE Resume(s, t, Returned("en"))

\* Mutant of OnDetect: a rejected detection gives 'fr'.
OnDetect_DefaultFrench(s, t, r) ==
  IF r.threw THEN Resume(s, t, Returned("fr"))
  ELSE Resume(Destroy(s, t), t,
              Returned(IF r.value = <<>> \/ r.value[1].detectedLanguage = ""
                       THEN "en" ELSE r.value[1].detectedLanguage))

\* detector.detect settled: destroy follows the await in the try, the catch
\* returns 'en'.
OnDetect(s, t, r) ==
  IF r.threw THEN Resume(s, t, Returned("en"))
  ELSE Resume(Destroy(s, t), t,
              Returned(IF r.value = <<>> \/ r.value[1].detectedLanguage = ""
                       THEN "en" ELSE r.value[1].detectedLanguage))

\* Translator.create settled
OnTranslatorCreate(s, t, ok) ==
  IF ok
  THEN Issue(Await(NewSession(s, t, "Translator"), t, "translator.translate"),
             t, "Translator", "translate", Thread(s, t).arg)
  ELSE Resume(s, t, Thrown(Wrap(TranslationFailed, EngineError)))

\* translator.translate settled: the translation is returned as it is, the
\* translator is not destroyed.
\* Mutant of OnTranslate: a rejected translation gives the text untranslated.
OnTranslate_Swallow(s, t, r) ==
  Resume(s, t, IF r.threw THEN Returned(Translation(Thread(s, t).arg.text, "")) ELSE r)

OnTranslate(s, t, r) ==
  Resume(s, t, IF r.threw THEN Thrown(Wrap(TranslationFailed, r.error)) ELSE r)

\* ------------------------------------------------------------------------
\* Bounds and input documents
\* ------------------------------------------------------------------------
MaxRuns == 3
MaxParas == 4
MaxUniformParas == 16

RunChars == {"a", "sp", "nl"}
RunLens == {1, 2, MAX_CHUNK_SIZE, MAX_DOCUMENT_SIZE, MAX_DOCUMENT_SIZE + 1}
ParaLens == {10, 1749, 1750, 3600}
UniformLens == {1649, MAX_CHUNK_SIZE}
Separators ==
  { <<Run("nl", 1)>>,
    <<Run("nl", 2)>>,
    <<Run("sp", 1), Run("nl", 3)>>,
    <<Run("cr", 1), Run("nl", 1), Run("cr", 1), Run("nl", 1)>> }

\* Every canonical text of at most n runs over RunChars and RunLens.
RECURSIVE RunSeqs(_)
RunSeqs(n) ==
  IF n = 0 THEN {<<>>}
  ELSE LET shorter == RunSeqs(n - 1)
       IN shorter \cup
          { t \in { Append(s, Run(c, k)) :
                       s \in {x \in shorter : Len(x) = n - 1},
                       c \in RunChars, k \in RunLens } :
              n = 1 \/ t[n - 1].c # t[n].c }

\* Paragraphs of the given lengths (letters alternating), joined by sep;
\* padded adds leading and trailing whitespace.
RECURSIVE JoinParas(_, _, _)
JoinParas(lens, sep, i) ==
  IF i > Len(lens) THEN <<>>
  ELSE LET para == <<Run(IF i % 2 = 1 THEN "a" ELSE "b", lens[i])>>
       IN IF i = Len(lens) THEN para
          ELSE para \o sep \o JoinParas(lens, sep, i + 1)

ParagraphDoc(lens, sep, padded) ==
  IF padded
  THEN <<Run("sp", 2)>> \o JoinParas(lens, sep, 1) \o <<Run("nl", 1)>>
  ELSE JoinParas(lens, sep, 1)

GeneralDocs == {Null} \cup RunSeqs(MaxRuns)

ParagraphDocs ==
  { ParagraphDoc(lens, sep, padded) :
      lens \in UNION {[1..n -> ParaLens] : n \in 1..MaxParas},
      sep \in Separators, padded \in BOOLEAN }

\* n paragraphs of k characters each, joined by "\n\n".
UniformDocs ==
  { [i \in 1..(2 * n - 1) |->
       IF i % 2 = 0 THEN Run("nl", 2)
       ELSE Run(IF i % 4 = 1 THEN "a" ELSE "b", k)] :
      n \in 1..MaxUniformParas, k \in UniformLens }

\* Two paragraphs of 3000 characters each.
TwoLongParagraphs == ParagraphDoc(<<3000, 3000>>, <<Run("nl", 2)>>, FALSE)

Documents == GeneralDocs \cup ParagraphDocs \cup UniformDocs \cup {TwoLongParagraphs}

\* The documents handed to the pipelines: none, empty, blank, too long
\* (with and without padding), and documents of one, two and three chunks.
PipelineDocs ==
  { Null, <<>>, <<Run("sp", 2), Run("nl", 1)>>,
    <<Run("a", MAX_DOCUMENT_SIZE + 1)>>,
    <<Run("sp", 1), Run("a", MAX_DOCUMENT_SIZE + 1), Run("nl", 1)>>,
    <<Run("a", 5), Run("sp", 1), Run("b", 4)>>,
    <<Run("sp", 1), Run("a", MAX_DOCUMENT_SIZE)>>,
    ParagraphDoc(<<3000, 3000>>, ParagraphSeparator, FALSE),
    ParagraphDoc(<<3000, 3000, 3000>>, ParagraphSeparator, TRUE) }

\* A document of four chunks, for the question answering.
FourLongParagraphs == ParagraphDoc(<<3000, 3000, 3000, 3000>>, ParagraphSeparator, FALSE)

\* The questions asked: none, empty, blank, and two of two words.
Questions ==
  { Null, <<>>, <<Run("sp", 1), Run("nl", 2)>>,
    <<Run("a", 5), Run("sp", 1), Run("b", 4)>>,
    <<Run("b", 4), Run("sp", 2), Run("a", 2)>> }

Languages == {"en", "fr"}

Pipelines == {"summarizeContent", "extractKeyPoints", "translateContent", "answerQuestion"}

\* The key-point lists handed to deduplicateSimple on its own: every list
\* of up to MaxPoints points over two texts in two spellings, and lists of
\* about ten points of different texts, one of them possibly a repetition
\* of the first, with the importances in rotation.
MaxPoints == 3
MaxLongPoints == 12

Importances == <<"high", "medium", "low">>

ShortPoints ==
  { KeyPoint(PointText(key, shape), importance, "other") :
      key \in {1, 2}, shape \in {"plain", "capitals"},
      importance \in {"high", "medium", "low"} }

ShortLists == UNION { [1..n -> ShortPoints] : n \in 0..MaxPoints }

LongLists ==
  { [i \in 1..n |->
       KeyPoint(PointText(IF i = repeated THEN 1 ELSE i, "plain"),
                Importances[((i + rotation) % 3) + 1], "other")] :
      n \in (MaxLongPoints - 3)..MaxLongPoints, repeated \in 1..MaxLongPoints,
      rotation \in 0..2 }

\* The lists handed to formatKeyPoints: none, and every list of up to
\* MaxFormatPoints points over two texts and four categories, one of them
\* missing.
MaxFormatPoints == 4

FormatPoints ==
  { KeyPoint(PointText(key, "plain"), "high", category) :
      key \in {"p", "q"}, category \in {"privacy", "legal", "other", ""} }

FormatLists == {Null} \cup UNION { [1..n -> FormatPoints] : n \in 0..MaxFormatPoints }

KeyPointLists == ShortLists \cup LongLists

\* The lists handed to deduplicateAndRankKeyPoints on its own: none, and
\* the long ones.
MergeInputs == {<<>>} \cup LongLists

\* ------------------------------------------------------------------------
\* background.js: the detection notifications
\* ------------------------------------------------------------------------
\* The tabs the browser has open.
Tabs == {1, 2}

\* The sender of a message that comes from no tab.
NoTab == 0

\* How many DETECTION_FOUND messages arrive.
MaxMessages == 3

\* How many times tabs navigate or close.
MaxResets == 1

\* The detection list the content script of each tab sends.
PageDetections == [t \in Tabs |-> IF t = 1 THEN <<"url", "form_signup">> ELSE <<>>]

\* The detection types that have a notification text.
DETECTION_MESSAGES == {"url", "content", "form_signup", "form_checkout", "cookie_consent"}

priorityOrder == <<"form_checkout", "form_signup", "cookie_consent", "content", "url">>

\* The first type of the priority order that was detected, else the first
\* detection, else "content".
getPrimaryDetection(detections) ==
  LET found == {i \in 1..Len(priorityOrder) :
                  \E j \in 1..Len(detections) : detections[j] = priorityOrder[i]}
  IN IF found # {} THEN priorityOrder[CHOOSE i \in found : \A k \in found : i <= k]
     ELSE IF Len(detections) > 0 THEN detections[1]
     ELSE "content"

\* The notification text used for a detection list, named by its type.
notificationConfig(detections) ==
  LET primaryDetection == getPrimaryDetection(detections)
  IN IF primaryDetection \in DETECTION_MESSAGES THEN primaryDetection ELSE "content"

\* Mutant of MarkNotified: the tab is not remembered.
MarkNotified_Forget(notifiedTabs, tabId) == notifiedTabs

\* notifiedTabs.add(tab.id).
MarkNotified(notifiedTabs, tabId) == notifiedTabs \cup {tabId}

\* ------------------------------------------------------------------------
\* The side panel: analyses of the page content
\* ------------------------------------------------------------------------
\* The page contents the session storage holds; "" is no content.
Contents == {"", "A", "B"}

\* The values of the summary type select.
SummaryTypes == {"key-points", "tldr"}

\* How many events reach the side panel: changes of the stored page
\* content, clicks on the re-analyze button, changes of the summary type.
MaxEvents == 3

\* ------------------------------------------------------------------------
\* constants.js and onboarding.js: the settings saved by the onboarding
\* ------------------------------------------------------------------------
DEFAULT_SETTINGS ==
  [autoAnalyze |-> "true", autoDetectionEnabled |-> "true", showGame |-> "true",
   defaultLanguage |-> "en", defaultSummaryType |-> "key-points",
   defaultSummaryLength |-> "short", themePreference |-> "auto"]

\* { ...a, ...b }: the keys of both objects, b's value where both have one.
Spread(a, b) ==
  [k \in DOMAIN a \cup DOMAIN b |-> IF k \in DOMAIN b THEN b[k] ELSE a[k]]

\* value || fallback for the value of a form element, "" where it is
\* missing or empty.
ValueOr(value, fallback) == IF value = "" THEN fallback ELSE value

\* The settings object completeOnboarding builds from the form.
OnboardingSettings(userName, defaultLanguage, themePreference) ==
  Spread([onboardingComplete |-> "true",
          userName |-> userName,
          defaultLanguage |-> ValueOr(defaultLanguage, "en"),
          themePreference |-> ValueOr(themePreference, "auto")],
         DEFAULT_SETTINGS)

\* The names, languages and themes the form can hold.
UserNames == {"", "Ann"}

FormLanguages == {"", "en", "es", "fr"}

FormThemes == {"", "auto", "light", "dark"}

\* The steps of the onboarding.
LastStep == 3

\* How many times the completion button is clicked.
MaxSaves == 2

\* ------------------------------------------------------------------------
\* State
\* ------------------------------------------------------------------------
VARIABLES
  content,      \* the document handed to the call
  chunkResult,  \* what chunkContent(content) returned or threw, None before
  validation,   \* what validateContentLength(content) returned, None before
  run,          \* the top-level pipeline call made on the document
  dedup,        \* a key-point list and what deduplicateSimple made of it
  call,         \* a call of a synchronous function: [fn, args, result]
  background,   \* the background service worker and the browser state it acts on
  sidepanel,    \* the side panel page: its globals, displays and pending analyses
  onboarding    \* the onboarding page: its form, its step and the local storage

vars ==
  <<content, chunkResult, validation, run, dedup, call,
    background, sidepanel, onboarding>>

\* The variables of the library functions called on their own.
library == <<content, chunkResult, validation, run, dedup, call>>

\* The service worker as loaded: no tab notified, nothing in flight.
NoBackground ==
  [notifiedTabs |-> {}, handlers |-> <<>>, autoDetectionEnabled |-> "undefined",
   badgeText |-> [t \in Tabs |-> ""], badges |-> [t \in Tabs |-> 0],
   notifications |-> [t \in Tabs |-> <<>>], visible |-> {},
   resets |-> [t \in Tabs |-> 0], closed |-> {}]

\* A display element of the side panel: what it shows and, for a result,
\* the content and the summary type it was computed from.
Display(kind, from, type) == [kind |-> kind, from |-> from, type |-> type]

\* The side panel as loaded, before any page content arrived.
NoSidePanel ==
  [pageContent |-> "", isManualTrigger |-> FALSE, autoAnalyze |-> TRUE,
   summaryType |-> "key-points",
   keypoints |-> Display("empty", "", ""), summary |-> Display("empty", "", ""),
   warning |-> "", threads |-> <<>>, events |-> 0]

\* The onboarding page as loaded: first step, empty form, nothing stored.
NoOnboarding ==
  [currentStep |-> 1, userName |-> "", defaultLanguage |-> "", themePreference |-> "",
   pc |-> "idle", disabled |-> FALSE, alerts |-> 0, saves |-> 0,
   storage |-> [k \in {} |-> ""]]

\* No synchronous function called.
NoCall == [fn |-> "", args |-> <<>>, result |-> None]

\* No list handed to deduplicateSimple.
NoDedup == [keyPoints |-> <<>>, results |-> <<>>]

\* No pipeline call: the arguments' defaults, nothing started.
NoRun ==
  [pipeline |-> "", content |-> <<>>, question |-> <<>>,
   targetLanguage |-> "en", sourceLanguage |-> NoLanguage,
   sourceLanguageArg |-> NoLanguage,
   hasLanguageDetector |-> FALSE, hasTranslator |-> FALSE,
   summarizerHasReady |-> FALSE,
   options |-> [type |-> "key-points", format |-> "markdown", length |-> "short"],
   main |-> IdleThread, tasks |-> <<>>, sessions |-> <<>>, calls |-> <<>>,
   outcome |-> None, validations |-> 0, chunkings |-> 0, chunks |-> <<>>,
   translatedChunks |-> <<>>, collected |-> <<>>, loopIndex |-> 0,
   arrivedOutOfOrder |-> FALSE]

\* ------------------------------------------------------------------------
\* The chunker called on its own
\* ------------------------------------------------------------------------
InitChunker ==
  /\ background = NoBackground
  /\ sidepanel = NoSidePanel
  /\ onboarding = NoOnboarding
  /\ content \in Documents
  /\ chunkResult = None
  /\ validation = None
  /\ run = NoRun
  /\ dedup = NoDedup
  /\ call = NoCall

CallChunkContent ==
  /\ chunkResult = None
  /\ chunkResult' = chunkContent(content)
  /\ UNCHANGED <<content, validation, run, dedup, call, background, sidepanel, onboarding>>

CallValidateContentLength ==
  /\ validation = None
  /\ validation' = validateContentLength(content)
  /\ UNCHANGED <<content, chunkResult, run, dedup, call, background, sidepanel, onboarding>>

NextChunker == CallChunkContent \/ CallValidateContentLength

SpecChunker == InitChunker /\ [][NextChunker]_vars

\* ------------------------------------------------------------------------
\* deduplicateSimple called on a list, and again on what it returned
\* ------------------------------------------------------------------------
InitDedup ==
  /\ background = NoBackground
  /\ sidepanel = NoSidePanel
  /\ onboarding = NoOnboarding
  /\ content = <<>>
  /\ chunkResult = None
  /\ validation = None
  /\ run = NoRun
  /\ \E keyPoints \in KeyPointLists : dedup = [keyPoints |-> keyPoints, results |-> <<>>]
  /\ call = NoCall

CallDeduplicateSimple ==
  /\ dedup.results = <<>>
  /\ dedup' = [dedup EXCEPT !.results = <<deduplicateSimple(dedup.keyPoints)>>]
  /\ UNCHANGED <<content, chunkResult, validation, run, call, background, sidepanel, onboarding>>

CallDeduplicateSimpleAgain ==
  /\ Len(dedup.results) = 1
  /\ dedup' = [dedup EXCEPT !.results = Append(@, deduplicateSimple(dedup.results[1]))]
  /\ UNCHANGED <<content, chunkResult, validation, run, call, background, sidepanel, onboarding>>

NextDedup == CallDeduplicateSimple \/ CallDeduplicateSimpleAgain

SpecDedup == InitDedup /\ [][NextDedup]_vars

\* ------------------------------------------------------------------------
\* formatKeyPoints called on a list
\* ------------------------------------------------------------------------
InitFormat ==
  /\ background = NoBackground
  /\ sidepanel = NoSidePanel
  /\ onboarding = NoOnboarding
  /\ content = <<>>
  /\ chunkResult = None
  /\ validation = None
  /\ run = NoRun
  /\ dedup = NoDedup
  /\ \E keyPoints \in FormatLists :
       call = [fn |-> "formatKeyPoints", args |-> <<keyPoints>>, result |-> None]

CallFormatKeyPoints ==
  /\ call.fn = "formatKeyPoints"
  /\ call.result = None
  /\ call' = [call EXCEPT !.result = Returned(formatKeyPoints(call.args[1]))]
  /\ UNCHANGED <<content, chunkResult, validation, run, dedup, background, sidepanel, onboarding>>

NextFormat == CallFormatKeyPoints

SpecFormat == InitFormat /\ [][NextFormat]_vars

\* ------------------------------------------------------------------------
\* A pipeline called on a document, and the engines settling its requests
\* ------------------------------------------------------------------------
InitPipeline ==
  /\ background = NoBackground
  /\ sidepanel = NoSidePanel
  /\ onboarding = NoOnboarding
  /\ content \in PipelineDocs
  /\ chunkResult = None
  /\ validation = None
  /\ dedup = NoDedup
  /\ call = NoCall
  /\ \/ \E ready \in BOOLEAN :
          run = [NoRun EXCEPT !.pipeline = "summarizeContent", !.content = content,
                              !.summarizerHasReady = ready]
     \/ run = [NoRun EXCEPT !.pipeline = "extractKeyPoints", !.content = content]
     \/ \E target \in Languages, source \in Languages \cup {NoLanguage},
           detector \in BOOLEAN, translator \in BOOLEAN :
          run = [NoRun EXCEPT !.pipeline = "translateContent", !.content = content,
                              !.targetLanguage = target, !.sourceLanguage = source,
                              !.sourceLanguageArg = source,
                              !.hasLanguageDetector = detector,
                              !.hasTranslator = translator]
     \/ \E question \in Questions :
          run = [NoRun EXCEPT !.pipeline = "answerQuestion", !.content = content,
                              !.question = question]
     \/ run = [NoRun EXCEPT !.pipeline = "getSuggestedQuestions", !.content = content]
     \/ /\ content = <<>>
        /\ \E keyPoints \in MergeInputs :
             run = [NoRun EXCEPT !.pipeline = "deduplicateAndRankKeyPoints",
                                 !.collected = keyPoints]

Idle == run.main.await = "idle"

Threads == 0..Len(run.tasks)

Awaiting(t, what) == Thread(run, t).await = what

CallSummarizeContent ==
  /\ run.pipeline = "summarizeContent" /\ Idle
  /\ run' = summarizeContent(run)
  /\ UNCHANGED <<content, chunkResult, validation, dedup, call, background, sidepanel, onboarding>>

CallExtractKeyPoints ==
  /\ run.pipeline = "extractKeyPoints" /\ Idle
  /\ run' = extractKeyPoints(run)
  /\ UNCHANGED <<content, chunkResult, validation, dedup, call, background, sidepanel, onboarding>>

CallTranslateContent ==
  /\ run.pipeline = "translateContent" /\ Idle
  /\ run' = translateContent(run)
  /\ UNCHANGED <<content, chunkResult, validation, dedup, call, background, sidepanel, onboarding>>

CallAnswerQuestion ==
  /\ run.pipeline = "answerQuestion" /\ Idle
  /\ run' = answerQuestion(run)
  /\ UNCHANGED <<content, chunkResult, validation, dedup, call, background, sidepanel, onboarding>>

CallGetSuggestedQuestions ==
  /\ run.pipeline = "getSuggestedQuestions" /\ Idle
  /\ run' = getSuggestedQuestions(run)
  /\ UNCHANGED <<content, chunkResult, validation, dedup, call, background, sidepanel, onboarding>>

\* deduplicateAndRankKeyPoints(keyPoints) on the key points of a document's
\* chunks, without the extraction before it.
CallDeduplicateAndRankKeyPoints ==
  /\ run.pipeline = "deduplicateAndRankKeyPoints" /\ Idle
  /\ run' = deduplicateAndRankKeyPoints(run, run.collected)
  /\ UNCHANGED <<content, chunkResult, validation, dedup, call, background, sidepanel, onboarding>>

\* What a completion can be, by who asked for it.
Completions(th) ==
  CASE th.gateway = "detectLanguage" ->
         {PointText("fr", "plain"), PointText("en", "padded capitals")}
    [] th.fn = "extractKeyPointsFromChunk" ->
         { Json("json", JsonArray(<<KeyPoint(PointText("p", "plain"), "low", "privacy"),
                                    KeyPoint(PointText("q", "plain"), "high", "rights")>>)),
           Json("fenced", JsonArray(<<KeyPoint(PointText("p", "capitals"), "medium", "other")>>)),
           Json("json", JsonObject([error |-> "none"])),
           Json("prose", [type |-> "null"]) }
    [] th.fn = "deduplicateAndRankKeyPoints" ->
         { Json("embedded", JsonArray(<<KeyPoint(PointText("p", "plain"), "high", "privacy")>>)),
           Json("json", JsonArray([i \in 1..11 |->
                                     KeyPoint(PointText("p", "plain"),
                                              IF i % 2 = 0 THEN "high" ELSE "low",
                                              "privacy")])),
           Json("prose", [type |-> "null"]) }
    [] th.fn = "getSuggestedQuestions" ->
         { Json("json", JsonArray(<<"Question 1?", "Question 2?", "Question 3?",
                                    "Question 4?", "Question 5?">>)),
           Json("fenced", JsonArray(<<"Question 1?">>)),
           Json("prose", [type |-> "null"]) }
    [] th.fn = "assessChunkRelevance" ->
         { Json("json", JsonObject([score |-> 8, reasoning |-> "relevant"])),
           Json("json", JsonObject([score |-> 15, reasoning |-> "very relevant"])),
           Json("fenced", JsonObject([score |-> 0, reasoning |-> "irrelevant"])),
           Json("json", JsonObject([reasoning |-> "no score"])),
           Json("json", [type |-> "null"]),
           Json("prose", [type |-> "null"]) }
    [] OTHER -> {Completion(th.arg, th.fn)}

Settled(values) == {Thrown(EngineError)} \cup {Returned(v) : v \in values}

\* X.create(...) fulfilled (with the object) or rejected
Created(ok) == IF ok THEN Returned([created |-> TRUE]) ELSE Thrown(EngineError)

\* The engine settles what thread t awaits with r.
Answered(s, t, r) ==
  SetThread(s, t, [Thread(s, t) EXCEPT !.answers =
                     Append(@, [await |-> Thread(s, t).await, result |-> r])])

LanguageModelCreate ==
  \E t \in Threads, ok \in BOOLEAN :
    /\ Awaiting(t, "LanguageModel.create")
    /\ run' = OnLanguageModelCreate(Answered(run, t, Created(ok)), t, ok)
    /\ UNCHANGED <<content, chunkResult, validation, dedup, call, background, sidepanel, onboarding>>

Prompt ==
  \E t \in Threads :
    /\ Awaiting(t, "session.prompt")
    /\ \E r \in Settled(Completions(Thread(run, t))) : run' = OnPrompt(Answered(run, t, r), t, r)
    /\ UNCHANGED <<content, chunkResult, validation, dedup, call, background, sidepanel, onboarding>>

SummarizerCreate ==
  \E t \in Threads, ok \in BOOLEAN :
    /\ Awaiting(t, "Summarizer.create")
    /\ run' = OnSummarizerCreate(Answered(run, t, Created(ok)), t, ok)
    /\ UNCHANGED <<content, chunkResult, validation, dedup, call, background, sidepanel, onboarding>>

SummarizerReady ==
  \E t \in Threads, ok \in BOOLEAN :
    /\ Awaiting(t, "summarizer.ready")
    /\ run' = OnSummarizerReady(Answered(run, t, Created(ok)), t, ok)
    /\ UNCHANGED <<content, chunkResult, validation, dedup, call, background, sidepanel, onboarding>>

SummarizerSummarize ==
  \E t \in Threads :
    /\ Awaiting(t, "summarizer.summarize")
    /\ \E r \in Settled({Summary(Thread(run, t).arg)}) : run' = OnSummarize(Answered(run, t, r), t, r)
    /\ UNCHANGED <<content, chunkResult, validation, dedup, call, background, sidepanel, onboarding>>

LanguageDetectorCreate ==
  \E t \in Threads, ok \in BOOLEAN :
    /\ Awaiting(t, "LanguageDetector.create")
    /\ run' = OnLanguageDetectorCreate(Answered(run, t, Created(ok)), t, ok)
    /\ UNCHANGED <<content, chunkResult, validation, dedup, call, background, sidepanel, onboarding>>

DetectorDetect ==
  \E t \in Threads :
    /\ Awaiting(t, "detector.detect")
    /\ \E r \in Settled({<<>>, <<[detectedLanguage |-> "fr"]>>,
                          <<[detectedLanguage |-> "en"], [detectedLanguage |-> "fr"]>>,
                          <<[detectedLanguage |-> ""]>>}) :
         run' = OnDetect(Answered(run, t, r), t, r)
    /\ UNCHANGED <<content, chunkResult, validation, dedup, call, background, sidepanel, onboarding>>

TranslatorCreate ==
  \E t \in Threads, ok \in BOOLEAN :
    /\ Awaiting(t, "Translator.create")
    /\ run' = OnTranslatorCreate(Answered(run, t, Created(ok)), t, ok)
    /\ UNCHANGED <<content, chunkResult, validation, dedup, call, background, sidepanel, onboarding>>

TranslatorTranslate ==
  \E t \in Threads :
    /\ Awaiting(t, "translator.translate")
    /\ \E r \in Settled({Translation(Thread(run, t).arg.text, run.targetLanguage)}) :
         run' = OnTranslate(Answered(run, t, r), t, r)
    /\ UNCHANGED <<content, chunkResult, validation, dedup, call, background, sidepanel, onboarding>>

NextPipeline ==
  \/ CallSummarizeContent
  \/ CallExtractKeyPoints
  \/ CallTranslateContent
  \/ CallAnswerQuestion
  \/ CallGetSuggestedQuestions
  \/ CallDeduplicateAndRankKeyPoints
  \/ LanguageModelCreate
  \/ Prompt
  \/ SummarizerCreate
  \/ SummarizerReady
  \/ SummarizerSummarize
  \/ LanguageDetectorCreate
  \/ DetectorDetect
  \/ TranslatorCreate
  \/ TranslatorTranslate

SpecPipeline == InitPipeline /\ [][NextPipeline]_vars

\* ------------------------------------------------------------------------
\* answerQuestion called on a document of four chunks
\* ------------------------------------------------------------------------
InitAnswer ==
  /\ background = NoBackground
  /\ sidepanel = NoSidePanel
  /\ onboarding = NoOnboarding
  /\ content = FourLongParagraphs
  /\ chunkResult = None
  /\ validation = None
  /\ dedup = NoDedup
  /\ call = NoCall
  /\ run = [NoRun EXCEPT !.pipeline = "answerQuestion", !.content = content,
                         !.question = <<Run("a", 5), Run("sp", 1), Run("b", 4)>>]

NextAnswer == CallAnswerQuestion \/ LanguageModelCreate \/ Prompt

SpecAnswer == InitAnswer /\ [][NextAnswer]_vars


\* ------------------------------------------------------------------------
\* Properties of the chunker (checked under SpecChunker)
\* ------------------------------------------------------------------------
\* README "Limits": Max chunks per document: ~14
MaxChunksPerDocument == 14

ChunkerReturned == chunkResult # None /\ ~chunkResult.threw

\* The documents chunkContent accepts: not blank, at most MAX_DOCUMENT_SIZE.
Accepted == ~IsBlank(content) /\ StrLen(Trim(content)) <= MAX_DOCUMENT_SIZE

TrimmedLength == StrLen(Trim(content))

Paragraphs == splitIntoParagraphs(Trim(content))

\* The loop's variables after the first i paragraphs.
LoopStateAfter(i) ==
  ChunkLoop(SubSeq(Paragraphs, 1, i), 1,
            [currentChunk |-> <<>>, chunkStartIndex |-> 0, chunks |-> <<>>])

\* Paragraph i closed the running chunk (it triggered a split).
TriggeredSplit(i) ==
  Len(LoopStateAfter(i).chunks) = Len(LoopStateAfter(i - 1).chunks) + 1

\* C1: the ranges [start, end) of the chunks of an accepted document cover
\* [0, len(trim(D))) without gaps: the first chunk starts at 0, every later
\* chunk starts at or before the previous chunk's end and never before 0,
\* and the last chunk ends at len(trim(D)).
C1_Coverage ==
  (ChunkerReturned /\ Accepted) =>
    LET cs == chunkResult.value
    IN /\ Len(cs) >= 1
       /\ cs[1].start = 0
       /\ \A k \in 2..Len(cs) : cs[k].start <= cs[k - 1].end /\ cs[k].start >= 0
       /\ cs[Len(cs)].end = TrimmedLength

\* C2 as stated: every document with len(trim(D)) <= 3500 yields exactly one
\* chunk with index 0, total 1, start 0, end len(trim(D)) and text trim(D).
C2_SingleChunkAnyLength ==
  (chunkResult # None /\ content # Null /\ TrimmedLength <= MAX_CHUNK_SIZE) =>
    chunkResult = Returned(<<Chunk(Trim(content), 0, 1, 0, TrimmedLength)>>)

\* C2 (amended): every document with 0 < len(trim(D)) <= 3500 yields exactly
\* one chunk with index 0, total 1, start 0, end len(trim(D)), text trim(D).
C2_SingleChunk ==
  (chunkResult # None /\ content # Null
     /\ 0 < TrimmedLength /\ TrimmedLength <= MAX_CHUNK_SIZE) =>
    /\ ~chunkResult.threw
    /\ Len(chunkResult.value) = 1
    /\ chunkResult.value[1].index = 0
    /\ chunkResult.value[1].total = 1
    /\ chunkResult.value[1].start = 0
    /\ chunkResult.value[1].end = TrimmedLength
    /\ chunkResult.value[1].text = Trim(content)

\* A document of exactly 3500 characters in several paragraphs was chunked.
C2_Witness ==
  /\ chunkResult # None /\ content # Null
  /\ TrimmedLength = MAX_CHUNK_SIZE
  /\ Len(Paragraphs) >= 2
  /\ Len(chunkResult.value) = 1

\* C3: when every paragraph is at most 3500 characters long, every chunk's
\* text is at most 3500 characters long.
C3_ChunkSizeBound ==
  (ChunkerReturned /\ Accepted
     /\ \A i \in 1..Len(Paragraphs) : StrLen(Paragraphs[i]) <= MAX_CHUNK_SIZE) =>
    \A k \in 1..Len(chunkResult.value) :
      StrLen(chunkResult.value[k].text) <= MAX_CHUNK_SIZE

\* C4: all chunks of an accepted document carry the same total, the number
\* of chunks returned, and the index values are 0..total-1 in order.
C4_TotalConsistency ==
  (ChunkerReturned /\ Accepted) =>
    LET cs == chunkResult.value
    IN /\ Len(cs) >= 1
       /\ \A k \in 1..Len(cs) :
            /\ cs[k].total = Len(cs)
            /\ cs[k].index = k - 1
            /\ cs[k].index < cs[k].total

\* An accepted document was split into three chunks or more.
C4_Witness == ChunkerReturned /\ Len(chunkResult.value) >= 3

\* C5 as stated: every non-first chunk's text begins with the trailing 200
\* characters of the previous chunk's text, followed directly by the
\* paragraph that triggered the split.
C5_OverlapThenParagraph ==
  (ChunkerReturned /\ Len(chunkResult.value) >= 2) =>
    LET cs == chunkResult.value
    IN \A k \in 2..Len(cs) :
         \E i \in 1..Len(Paragraphs) :
           /\ TriggeredSplit(i)
           /\ Len(LoopStateAfter(i).chunks) = k - 1
           /\ StartsWith(cs[k].text,
                         Concat(SliceLast(cs[k - 1].text, CHUNK_OVERLAP), Paragraphs[i]))

\* C5 (amended): every non-first chunk's text begins with the trailing 200
\* characters of the previous chunk's text (the whole text when shorter),
\* then the two-character paragraph separator, then the paragraph that
\* triggered the split.
C5_OverlapSeed ==
  (ChunkerReturned /\ Len(chunkResult.value) >= 2) =>
    LET cs == chunkResult.value
    IN \A k \in 2..Len(cs) :
         \E i \in 1..Len(Paragraphs) :
           /\ TriggeredSplit(i)
           /\ Len(LoopStateAfter(i).chunks) = k - 1
           /\ StartsWith(cs[k].text,
                         Concat(Concat(SliceLast(cs[k - 1].text, CHUNK_OVERLAP),
                                       ParagraphSeparator),
                                Paragraphs[i]))

\* A split after a chunk shorter than the overlap and a split after a
\* chunk longer than it, in one document.
C5_Witness ==
  /\ ChunkerReturned
  /\ Len(chunkResult.value) >= 3
  /\ StrLen(chunkResult.value[1].text) < CHUNK_OVERLAP
  /\ StrLen(chunkResult.value[2].text) > CHUNK_OVERLAP

\* C6: chunkContent throws exactly when validateContentLength reports the
\* document too long; both accept a document with 0 < len(trim(D)) <= 50000;
\* the rejection carries the measured length and the limit.
C6_SizeCeilingAgreement ==
  (chunkResult # None /\ validation # None) =>
    /\ chunkResult.threw <=>
         (~validation.valid /\ validation.error = ContentTooLong(TrimmedLength)
            /\ TrimmedLength > MAX_DOCUMENT_SIZE)
    /\ (content # Null /\ 0 < TrimmedLength /\ TrimmedLength <= MAX_DOCUMENT_SIZE) =>
         (~chunkResult.threw /\ validation.valid)
    /\ (content # Null /\ TrimmedLength > MAX_DOCUMENT_SIZE) =>
         /\ chunkResult.threw
         /\ chunkResult.error.length = TrimmedLength
         /\ chunkResult.error.limit = MAX_DOCUMENT_SIZE
         /\ validation.error.length = TrimmedLength
         /\ validation.error.limit = MAX_DOCUMENT_SIZE
         /\ validation.length = TrimmedLength

\* A document one character over the ceiling was rejected by both.
C6_Witness ==
  /\ chunkResult # None /\ validation # None
  /\ content # Null
  /\ TrimmedLength = MAX_DOCUMENT_SIZE + 1
  /\ chunkResult.threw /\ ~validation.valid

\* C7: a document of at most 50,000 trimmed characters yields at most 14
\* chunks.
C7_AtMostFourteenChunks ==
  ChunkerReturned => Len(chunkResult.value) <= MaxChunksPerDocument

\* The paragraphs ps joined by the paragraph separator.
RECURSIVE JoinedParagraphs(_)
JoinedParagraphs(ps) ==
  IF Len(ps) = 0 THEN <<>>
  ELSE IF Len(ps) = 1 THEN ps[1]
  ELSE Concat(Concat(ps[1], ParagraphSeparator), JoinedParagraphs(Tail(ps)))

\* The overlap prefix of the k-th returned chunk: nothing for the first
\* chunk, the tail of the previous chunk and a separator for the others.
OverlapPrefix(k) ==
  IF k = 1 THEN <<>>
  ELSE Concat(SliceLast(chunkResult.value[k - 1].text, CHUNK_OVERLAP),
              ParagraphSeparator)

\* The chunks from the k-th on hold, after their overlap prefixes, the
\* paragraphs from the j-th on: each chunk a run of consecutive paragraphs,
\* every paragraph in one chunk.
RECURSIVE ChunksHoldParagraphs(_, _)
ChunksHoldParagraphs(k, j) ==
  IF k > Len(chunkResult.value) THEN j = Len(Paragraphs) + 1
  ELSE \E e \in j..Len(Paragraphs) :
         /\ chunkResult.value[k].text =
              Concat(OverlapPrefix(k), JoinedParagraphs(SubSeq(Paragraphs, j, e)))
         /\ ChunksHoldParagraphs(k + 1, e + 1)

\* C23: chunkContent loses no content: for an accepted document of several
\* chunks, every paragraph of trim(D) is in full in exactly one chunk after
\* that chunk's overlap prefix, the paragraphs are in document order across
\* the chunks, and the text accumulated when the loop ends is the last
\* chunk.
C23_NoContentLost ==
  (ChunkerReturned /\ Len(chunkResult.value) >= 2) =>
    /\ ChunksHoldParagraphs(1, 1)
    /\ chunkResult.value[Len(chunkResult.value)].text =
         LoopStateAfter(Len(Paragraphs)).currentChunk

\* Three chunks or more, one of them with several paragraphs after its
\* overlap prefix.
C23_Witness ==
  /\ ChunkerReturned
  /\ Len(chunkResult.value) >= 3
  /\ Len(Paragraphs) > Len(chunkResult.value)

\* Appending paragraph i, with the separator, to the running chunk would
\* make it exceed the limit, and the running chunk is not empty.
Overflows(i) ==
  LET running == LoopStateAfter(i - 1).currentChunk
  IN /\ StrLen(running) > 0
     /\ StrLen(running) + StrLen(ParagraphSeparator) + StrLen(Paragraphs[i])
          > MAX_CHUNK_SIZE

\* C24: chunkContent closes the running chunk before paragraph p exactly
\* when appending p, with the paragraph separator, would make the running
\* chunk exceed 3500 characters and the running chunk is not empty;
\* otherwise p is appended to the running chunk. Two paragraphs of 3000
\* characters each yield exactly 2 chunks.
C24_SplitExactlyOnOverflow ==
  (ChunkerReturned /\ TrimmedLength > MAX_CHUNK_SIZE) =>
    /\ \A i \in 1..Len(Paragraphs) :
         LET before == LoopStateAfter(i - 1)
             after == LoopStateAfter(i)
             running == before.currentChunk
         IN IF Overflows(i)
            THEN /\ Len(after.chunks) = Len(before.chunks) + 1
                 /\ SubSeq(after.chunks, 1, Len(before.chunks)) = before.chunks
                 /\ after.chunks[Len(after.chunks)].text = running
            ELSE /\ after.chunks = before.chunks
                 /\ after.currentChunk =
                      IF running = <<>> THEN Paragraphs[i]
                      ELSE Concat(Concat(running, ParagraphSeparator), Paragraphs[i])
    /\ Len(chunkResult.value) =
         1 + Cardinality({i \in 1..Len(Paragraphs) : Overflows(i)})
    /\ content = TwoLongParagraphs => Len(chunkResult.value) = 2

\* A paragraph that fills the running chunk exactly to the limit and a
\* later one that overflows it; and the document of two long paragraphs.
C24_Witness ==
  /\ ChunkerReturned
  /\ TrimmedLength > MAX_CHUNK_SIZE
  /\ \/ content = TwoLongParagraphs
     \/ \E i, j \in 1..Len(Paragraphs) :
          /\ i > 1
          /\ ~Overflows(i)
          /\ StrLen(LoopStateAfter(i).currentChunk) = MAX_CHUNK_SIZE
          /\ Overflows(j)

\* ------------------------------------------------------------------------
\* Properties of the pipelines (checked under SpecPipeline)
\* ------------------------------------------------------------------------
\* The call has returned or thrown and every callback it started has settled.
CallOver ==
  /\ run.outcome # None
  /\ \A t \in Threads : Awaiting(t, "settled")

InvalidContent == ~validateContentLength(run.content).valid

BlankQuestion == run.pipeline = "answerQuestion" /\ IsBlank(run.question)

QuestionMissing == Message("Please provide a question")

\* C8: once a top-level pipeline call has returned or failed and its
\* in-flight calls have settled, every engine object created during the call
\* (completion session, summarizer, translator, language detector) has been
\* destroyed.
C8_SessionsReleased ==
  CallOver => \A i \in 1..Len(run.sessions) : run.sessions[i].destroyed

\* C9 as stated: a pipeline given empty, blank or oversized content fails
\* before any chunking and any engine request, and what it throws is the
\* validation error of the content, without a prefix.
C9_ContentErrorVerbatim ==
  (run.pipeline \in Pipelines /\ InvalidContent /\ ~Idle) =>
    /\ run.chunkings = 0
    /\ run.calls = <<>>
    /\ run.outcome = Thrown(validateContentLength(run.content).error)

\* C9, amended: a pipeline given empty, blank or oversized content fails
\* before any chunking and any engine request; what it throws carries no
\* prefix and is the validation error of the content, except that
\* answerQuestion with a blank question throws the question's error.
C9_InvalidContentFailsFirst ==
  (run.pipeline \in Pipelines /\ InvalidContent /\ ~Idle) =>
    /\ run.chunkings = 0
    /\ run.calls = <<>>
    /\ run.sessions = <<>>
    /\ run.outcome # None
    /\ run.outcome.threw
    /\ run.outcome.error.prefix = <<>>
    /\ run.outcome.error = IF BlankQuestion THEN QuestionMissing
                           ELSE validateContentLength(run.content).error

\* Summarization of a padded document that is too long has failed with the
\* validation error.
C9_Witness ==
  /\ run.pipeline = "summarizeContent"
  /\ run.content # Null
  /\ Len(run.content) = 3
  /\ StrLen(Trim(run.content)) > MAX_DOCUMENT_SIZE
  /\ run.validations = 1
  /\ run.outcome = Thrown(ContentTooLong(MAX_DOCUMENT_SIZE + 1))

\* C10: answerQuestion with an empty or blank question fails before the
\* content is validated, before any chunking and before any engine request,
\* whatever the document.
C10_BlankQuestionFailsFirst ==
  (BlankQuestion /\ ~Idle) =>
    /\ run.outcome = Thrown(QuestionMissing)
    /\ run.validations = 0
    /\ run.chunkings = 0
    /\ run.calls = <<>>

\* A blank question about a document that is too long has been refused.
C10_Witness ==
  /\ BlankQuestion
  /\ run.question # Null
  /\ run.question # <<>>
  /\ InvalidContent
  /\ run.outcome = Thrown(QuestionMissing)

\* How the engine settled the last thing thread t awaited.
LastAnswer(t) == Thread(run, t).answers[Len(Thread(run, t).answers)].result

AllTasksSettled == \A t \in 1..Len(run.tasks) : Awaiting(t, "settled")

\* The completion of chunk t's callback failed, or what it gave is no JSON
\* list.
ChunkFailed(t) ==
  \/ LastAnswer(t).threw
  \/ LastAnswer(t).value.form = "prose"
  \/ LastAnswer(t).value.value.type # "array"

\* The points the completion of chunk t's callback listed.
ListedPoints(t) == LastAnswer(t).value.value.items

\* C11: in key-point extraction, whichever chunks' completions or JSON
\* parses fail, extractKeyPoints does not throw; a failing chunk contributes
\* exactly one placeholder point tagged with its own chunkIndex, a
\* successful chunk its listed points (point, importance, category as
\* listed, tagged with its chunkIndex), and the fan-in stage receives these
\* in chunk order.
C11_ChunkFaultIsolation ==
  (run.pipeline = "extractKeyPoints" /\ ~InvalidContent /\ ~Idle) =>
    /\ run.outcome # None => ~run.outcome.threw
    /\ \A t \in 1..Len(run.tasks) :
         Awaiting(t, "settled") =>
           LET points == run.tasks[t].result.value
           IN /\ ~run.tasks[t].result.threw
              /\ IF ChunkFailed(t)
                 THEN /\ Len(points) = 1
                      /\ points[1].chunkIndex = run.chunks[t].index
                      /\ points[1].category = "other"
                      /\ points[1].importance = "high"
                 ELSE /\ Len(points) = Len(ListedPoints(t))
                      /\ \A i \in 1..Len(points) :
                           /\ points[i].point = ListedPoints(t)[i].point
                           /\ points[i].importance = ListedPoints(t)[i].importance
                           /\ points[i].category = ListedPoints(t)[i].category
                           /\ points[i].chunkIndex = run.chunks[t].index
    /\ AllTasksSettled =>
         IF Len(run.chunks) > 1
         THEN run.collected = Flat(TaskValues(run))
         ELSE run.outcome = Returned(Flat(TaskValues(run)))

\* Of three chunks the second failed and the third did not; the call
\* returned.
C11_Witness ==
  /\ run.pipeline = "extractKeyPoints"
  /\ Len(run.chunks) = 3
  /\ CallOver
  /\ ~run.outcome.threw
  /\ ChunkFailed(2)
  /\ ~ChunkFailed(3)
  /\ Len(run.collected) >= 2

\* The system prompt of the session that request i (a LanguageModel create
\* or the prompt that follows it in the same thread) is about.
SystemPromptOf(i) ==
  IF run.calls[i].op = "create" THEN run.calls[i].input.systemPrompt
  ELSE LET j == CHOOSE j \in 1..(i - 1) :
                  /\ run.calls[j].thread = run.calls[i].thread
                  /\ run.calls[j].op = "create"
                  /\ \A k \in (j + 1)..(i - 1) : run.calls[k].thread # run.calls[i].thread
       IN run.calls[j].input.systemPrompt

\* Request i was made to detect the language of the content.
IsDetectionCall(i) ==
  \/ run.calls[i].api = "LanguageDetector"
  \/ /\ run.calls[i].api = "LanguageModel"
     /\ SystemPromptOf(i) = [system |-> "language detector"]

\* Request i asks an engine to translate a text.
IsTranslationCall(i) ==
  \/ run.calls[i].api = "Translator" /\ run.calls[i].op = "translate"
  \/ /\ run.calls[i].api = "LanguageModel" /\ run.calls[i].op = "prompt"
     /\ "targetLanguage" \in DOMAIN SystemPromptOf(i)

\* C12: when the source language, supplied or detected, equals the target
\* language, translateContent returns the input text as it is with a
\* non-empty note, without chunking and without any translation request;
\* when the source language was supplied, without any engine request at all.
C12_SameLanguageSkipsTranslation ==
  (/\ run.pipeline = "translateContent" /\ ~InvalidContent /\ ~Idle
   /\ run.sourceLanguage = run.targetLanguage) =>
    /\ run.outcome # None
    /\ ~run.outcome.threw
    /\ run.outcome.value.translatedText = run.content
    /\ "note" \in DOMAIN run.outcome.value
    /\ run.outcome.value.note # ""
    /\ run.chunkings = 0
    /\ \A i \in 1..Len(run.calls) : IsDetectionCall(i) /\ ~IsTranslationCall(i)
    /\ run.sourceLanguageArg = run.targetLanguage => run.calls = <<>>

\* French was asked for, no source language was given, French was detected.
C12_Witness ==
  /\ run.pipeline = "translateContent"
  /\ run.sourceLanguageArg = NoLanguage
  /\ run.sourceLanguage = "fr"
  /\ run.targetLanguage = "fr"
  /\ run.calls # <<>>
  /\ run.outcome # None
  /\ ~run.outcome.threw
  /\ run.outcome.value.translatedText = run.content

TranslationCalls == {i \in 1..Len(run.calls) : IsTranslationCall(i)}

\* The k-th translation request, in the order they were issued.
TranslationCall(k) ==
  run.calls[CHOOSE i \in TranslationCalls :
              Cardinality({j \in TranslationCalls : j < i}) = k - 1]

\* What the engines answered to the main function's prompts and translate
\* requests.
TextAnswers ==
  SelectSeq(run.main.answers,
            LAMBDA a : a.await \in {"translator.translate", "session.prompt"})

\* The translation performed: the call returned without the same-language
\* note.
Translated ==
  /\ run.pipeline = "translateContent"
  /\ run.outcome # None
  /\ ~run.outcome.threw
  /\ "chunksProcessed" \in DOMAIN run.outcome.value

\* C13: when translation is performed, every chunk 0..N-1 was handed to the
\* engine exactly once, in index order, and translatedText is the engine's
\* answers for chunks 0..N-1 joined in that order by a blank line.
C13_TranslationsJoinedInOrder ==
  Translated =>
    LET N == Len(run.chunks)
        skipped == Len(TextAnswers) - N
    IN /\ run.chunks = chunkContent(run.content).value
       /\ run.outcome.value.chunksProcessed = N
       /\ Cardinality(TranslationCalls) = N
       /\ \A k \in 1..N :
            /\ run.chunks[k].index = k - 1
            /\ TranslationCall(k).input = [text |-> run.chunks[k].text]
       /\ skipped >= 0
       /\ run.outcome.value.translatedText.separator = ParagraphSeparator
       /\ Len(run.outcome.value.translatedText.joined) = N
       /\ \A k \in 1..N :
            /\ ~TextAnswers[skipped + k].result.threw
            /\ run.outcome.value.translatedText.joined[k] =
                 TextAnswers[skipped + k].result.value

\* Three chunks were translated through completions after the language was
\* detected through a completion.
C13_Witness ==
  /\ Translated
  /\ Len(run.chunks) = 3
  /\ ~run.hasTranslator
  /\ ~run.hasLanguageDetector
  /\ run.sourceLanguageArg = NoLanguage
  /\ Len(run.outcome.value.translatedText.joined) = 3

\* Every chunk of a multi-chunk document was summarized and the merge
\* completion (its session or its prompt) failed.
MergeFailed ==
  /\ run.pipeline = "summarizeContent"
  /\ Len(run.chunks) > 1
  /\ Len(run.tasks) = Len(run.chunks)
  /\ \A t \in 1..Len(run.tasks) :
       /\ Awaiting(t, "settled")
       /\ Thread(run, t).answers # <<>>
       /\ ~LastAnswer(t).threw
       /\ "summaryOf" \in DOMAIN LastAnswer(t).value
  /\ run.main.fn = "mergeSummaries"
  /\ run.main.answers # <<>>
  /\ LastAnswer(0).threw

\* C14: in multi-chunk summarization, when every chunk's summarize call
\* succeeded and the merge completion failed, summarizeContent returns the
\* chunks' summaries joined by a blank line in chunk-index order and throws
\* nothing.
C14_MergeFallsBackToConcatenation ==
  MergeFailed =>
    /\ run.outcome # None
    /\ ~run.outcome.threw
    /\ run.outcome.value.separator = ParagraphSeparator
    /\ Len(run.outcome.value.joined) = Len(run.chunks)
    /\ \A k \in 1..Len(run.chunks) :
         /\ run.chunks[k].index = k - 1
         /\ run.outcome.value.joined[k] = LastAnswer(k).value

\* The three summaries of a three-chunk document were returned after the
\* merge prompt was rejected.
C14_Witness ==
  /\ MergeFailed
  /\ Len(run.chunks) = 3
  /\ Len(run.main.answers) = 2
  /\ run.outcome # None
  /\ ~run.outcome.threw
  /\ Len(run.outcome.value.joined) = 3

\* C15: for a valid multi-chunk document extractKeyPoints returns at most
\* 10 key points, whether they come from the rank-and-truncate completion
\* or from the local fallback.
C15_AtMostTenKeyPoints ==
  (/\ run.pipeline = "extractKeyPoints" /\ Len(run.chunks) > 1
   /\ run.outcome # None /\ ~run.outcome.threw) =>
    Len(run.outcome.value) <= 10

\* Every chunk of a multi-chunk document has its relevance score and none
\* is above 0.
NoChunkRelevant ==
  /\ run.pipeline = "answerQuestion"
  /\ Len(run.chunks) > 1
  /\ Len(run.tasks) = Len(run.chunks)
  /\ AllTasksSettled
  /\ \A t \in 1..Len(run.tasks) : run.tasks[t].result.value.score <= 0

\* C17: in multi-chunk question answering, when no chunk's relevance score
\* is above 0, answerQuestion returns the fixed not-found answer and no
\* engine request is made besides those of the relevance scoring.
C17_NotFoundWithoutFurtherCall ==
  NoChunkRelevant =>
    /\ run.outcome = Returned(NotFoundAnswer)
    /\ run.main.answers = <<>>
    /\ \A i \in 1..Len(run.calls) :
         /\ run.calls[i].thread # 0
         /\ run.calls[i].fn = "assessChunkRelevance"

\* Three chunks were scored, one by keywords after its completion failed,
\* none above 0, and the not-found answer was returned.
C17_Witness ==
  /\ NoChunkRelevant
  /\ Len(run.chunks) = 3
  /\ \E t \in 1..3 : LastAnswer(t).threw
  /\ \E t \in 1..3 : ~LastAnswer(t).threw
  /\ run.outcome = Returned(NotFoundAnswer)

\* C18: getSuggestedQuestions never fails; when the engine is unavailable
\* or fails, the response cannot be parsed or the document is missing, it
\* returns the fixed list of 5 generic questions.
C18_SuggestedQuestionsNeverFail ==
  (run.pipeline = "getSuggestedQuestions" /\ run.outcome # None) =>
    /\ ~run.outcome.threw
    /\ (\/ run.content = Null
        \/ LastAnswer(0).threw
        \/ LastAnswer(0).value.form = "prose") =>
         /\ run.outcome.value = GenericQuestions
         /\ Len(run.outcome.value) = 5

\* The prefix a pipeline puts before the message of an error it caught.
FailurePrefix(pipeline) ==
  CASE pipeline = "summarizeContent" -> "Summarization failed: "
    [] pipeline = "translateContent" -> "Translation failed: "
    [] pipeline = "answerQuestion" -> "Q&A failed: "
    [] pipeline = "extractKeyPoints" -> "Key points extraction failed: "

\* The call got past the validation of its input.
PastValidation == ~Idle /\ ~InvalidContent /\ ~BlankQuestion

\* Nothing the call started waits for an engine.
Quiescent == \A t \in Threads : Thread(run, t).await \in {"settled", "Promise.all"}

\* C19: when summarizeContent, translateContent or answerQuestion fails
\* after the validation of its input, the caller gets an error whose message
\* begins with the pipeline's prefix (Summarization failed / Translation
\* failed / Q&A failed); and once nothing of the call waits for an engine, the
\* call has returned a result or thrown.
C19_FailuresArePrefixed ==
  (/\ run.pipeline \in {"summarizeContent", "translateContent", "answerQuestion"}
   /\ PastValidation) =>
    /\ (run.outcome # None /\ run.outcome.threw) =>
         /\ run.outcome.error.prefix # <<>>
         /\ Head(run.outcome.error.prefix) = FailurePrefix(run.pipeline)
    /\ Quiescent => run.outcome # None

\* The answer prompt over the relevant chunks of a three-chunk document was
\* rejected and the question failed with the prefixed error.
C19_Witness ==
  /\ run.pipeline = "answerQuestion"
  /\ Len(run.chunks) = 3
  /\ CallOver
  /\ run.main.fn = "answerFromChunk"
  /\ Len(run.main.answers) = 2
  /\ run.outcome = Thrown(Wrap("Q&A failed: ", EngineError))

\* An engine request of the call was rejected.
EngineFailed ==
  \E t \in Threads :
    \E i \in 1..Len(Thread(run, t).answers) : Thread(run, t).answers[i].result.threw

\* The call is on a document of one chunk.
SingleChunk == PastValidation /\ Len(run.chunks) = 1

\* C20 as stated: for a single-chunk document a failed engine request in
\* key-point extraction, summarization or question answering reaches the
\* caller as an error prefixed with the pipeline's name.
C20_SingleChunkFailureSurfaces ==
  (/\ run.pipeline \in {"extractKeyPoints", "summarizeContent", "answerQuestion"}
   /\ SingleChunk /\ EngineFailed) =>
    /\ run.outcome # None
    /\ run.outcome.threw
    /\ run.outcome.error.prefix # <<>>
    /\ Head(run.outcome.error.prefix) = FailurePrefix(run.pipeline)

\* C20, amended: for a single-chunk document a failed engine request in
\* summarization or question answering reaches the caller as an error
\* prefixed with the pipeline's name and carrying the engine's message; in
\* key-point extraction it does not: the call returns the one placeholder
\* point of chunk 0.
C20_SingleChunkFailureSurfacesOrPlaceholder ==
  (/\ run.pipeline \in {"extractKeyPoints", "summarizeContent", "answerQuestion"}
   /\ SingleChunk /\ EngineFailed) =>
    /\ run.outcome # None
    /\ IF run.pipeline = "extractKeyPoints"
       THEN /\ ~run.outcome.threw
            /\ Len(run.outcome.value) = 1
            /\ run.outcome.value[1].chunkIndex = 0
            /\ run.outcome.value[1].importance = "high"
            /\ run.outcome.value[1].category = "other"
            /\ LowerTrim(run.outcome.value[1].point) =
                 "unable to extract key points. please review the document manually."
       ELSE /\ run.outcome.threw
            /\ run.outcome.error.prefix # <<>>
            /\ Head(run.outcome.error.prefix) = FailurePrefix(run.pipeline)
            /\ run.outcome.error.text = EngineError.text

\* The question about a one-chunk document failed because its prompt was
\* rejected.
C20_Witness ==
  /\ run.pipeline = "answerQuestion"
  /\ SingleChunk
  /\ EngineFailed
  /\ Len(run.main.answers) = 2
  /\ run.outcome # None
  /\ run.outcome.threw
  /\ run.outcome.error.prefix = <<"Q&A failed: ">>

\* C21: what translateContent returns carries note exactly when the source
\* language equals the target language, and chunksProcessed only when the
\* document was chunked and translated, then equal to the number of chunks
\* translated; it never carries both.
C21_NoteXorChunksProcessed ==
  (run.pipeline = "translateContent" /\ run.outcome # None /\ ~run.outcome.threw) =>
    LET result == run.outcome.value
    IN /\ "note" \in DOMAIN result <=> result.sourceLanguage = result.targetLanguage
       /\ "note" \in DOMAIN result =>
            Cardinality(TranslationCalls) = 0 /\ run.chunkings = 0
       /\ "chunksProcessed" \in DOMAIN result =>
            /\ run.chunkings = 1
            /\ result.chunksProcessed = Len(run.chunks)
            /\ result.chunksProcessed = Cardinality(TranslationCalls)
            /\ result.chunksProcessed = Len(result.translatedText.joined)
            /\ result.chunksProcessed >= 1
       /\ ~("note" \in DOMAIN result /\ "chunksProcessed" \in DOMAIN result)

\* A document of two chunks, its language detected, was translated.
C21_Witness ==
  /\ Translated
  /\ run.sourceLanguageArg = NoLanguage
  /\ run.outcome.value.chunksProcessed = 2
  /\ "note" \notin DOMAIN run.outcome.value

\* The completion calls made so far, each by its LanguageModel.create request.
CompletionCalls ==
  {i \in 1..Len(run.calls) :
     run.calls[i].api = "LanguageModel" /\ run.calls[i].op = "create"}

LanguageModelSessions ==
  {x \in 1..Len(run.sessions) : run.sessions[x].kind = "LanguageModel"}

\* The prompts issued on session x.
PromptsOn(x) ==
  {i \in 1..Len(run.calls) :
     /\ run.calls[i].api = "LanguageModel" /\ run.calls[i].op = "prompt"
     /\ run.calls[i].object = x}

\* The engine's answers to what was awaited as `what`: thread and position.
AnswersTo(what) ==
  {a \in Threads \X (1..(2 * Len(run.calls))) :
     /\ a[2] <= Len(Thread(run, a[1]).answers)
     /\ Thread(run, a[1]).answers[a[2]].await = what}

Rejected(a) == Thread(run, a[1]).answers[a[2]].result.threw

\* Session x is used for one prompt, by the thread that created it, and
\* destroyed once, when that prompt has settled.
UsedOnceAndReleased(x) ==
  /\ Cardinality(PromptsOn(x)) = 1
  /\ \A i \in PromptsOn(x) : run.calls[i].thread = run.sessions[x].thread
  /\ run.sessions[x].destroys =
       IF /\ Awaiting(run.sessions[x].thread, "session.prompt")
          /\ Thread(run, run.sessions[x].thread).session = x
       THEN 0 ELSE 1

\* C25 as stated: every completion call (promptAPI / fastPromptAPI) acquires
\* exactly one fresh session, uses it for exactly one prompt and destroys
\* it exactly once whether the prompt succeeds or throws; no session is
\* used by two calls.
C25_OneSessionPerCompletionCall ==
  CallOver =>
    /\ Cardinality(LanguageModelSessions) = Cardinality(CompletionCalls)
    /\ \A x \in LanguageModelSessions : UsedOnceAndReleased(x)

\* C25 (amended): every completion call requests exactly one fresh session;
\* when the engine creates it, the call uses it for exactly one prompt and
\* destroys it exactly once, whether the prompt succeeds or throws, and
\* when the engine refuses it the call has no session and issues no prompt.
\* No session is used by two calls, concurrent per-chunk calls included.
C25_OneSessionPerCreatedSession ==
  /\ Cardinality(CompletionCalls) =
       Cardinality(AnswersTo("LanguageModel.create"))
       + Cardinality({t \in Threads : Awaiting(t, "LanguageModel.create")})
  /\ Cardinality(LanguageModelSessions) =
       Cardinality({a \in AnswersTo("LanguageModel.create") : ~Rejected(a)})
  /\ \A x \in LanguageModelSessions : UsedOnceAndReleased(x)
  /\ \A i \in 1..Len(run.calls) :
       (run.calls[i].api = "LanguageModel" /\ run.calls[i].op = "prompt") =>
         run.calls[i].object \in LanguageModelSessions

\* Three concurrent per-chunk completion calls are over: one was refused
\* its session, one had its prompt rejected, one had it fulfilled.
C25_Witness ==
  /\ CallOver
  /\ \E a \in AnswersTo("LanguageModel.create") : Rejected(a)
  /\ \E a, b \in AnswersTo("session.prompt") :
       /\ a[1] # b[1] /\ a[1] # 0 /\ b[1] # 0
       /\ Rejected(a) /\ ~Rejected(b)

\* The translateText calls made so far, each by the create request it
\* starts with.
TranslateTextCalls ==
  {i \in 1..Len(run.calls) :
     /\ run.calls[i].op = "create"
     /\ \/ run.calls[i].api = "Translator"
        \/ /\ run.calls[i].api = "LanguageModel"
           /\ "targetLanguage" \in DOMAIN run.calls[i].input.systemPrompt}

\* The main function is inside translateText, waiting for an engine.
TranslateTextInFlight ==
  /\ run.main.gateway = "translateText"
  /\ run.main.await \in {"Translator.create", "translator.translate",
                         "LanguageModel.create", "session.prompt"}

\* C26: translation chunks are processed strictly sequentially: at every
\* moment at most one translateText call of a translateContent invocation
\* is in flight, and the call for chunk i+1 is issued only after the call
\* for chunk i has completed.
C26_TranslationIsSequential ==
  run.pipeline = "translateContent" =>
    LET started == Cardinality(TranslateTextCalls)
        completed == Len(run.translatedChunks)
    IN /\ started \in {completed, completed + 1}
       /\ TranslateTextInFlight => started = completed + 1
       /\ started = completed + 1 =>
            \/ TranslateTextInFlight
            \/ run.outcome # None /\ run.outcome.threw
       /\ \A k \in 1..completed : run.translatedChunks[k].index = k - 1
       /\ \A i \in TranslateTextCalls : run.calls[i].thread = 0

\* The third chunk's translateText call is in flight, the first two are
\* over.
C26_Witness ==
  /\ run.pipeline = "translateContent"
  /\ TranslateTextInFlight
  /\ Len(run.translatedChunks) = 2
  /\ Cardinality(TranslateTextCalls) = 3

\* The prompts of the completion calls made by function fn.
PromptsOf(fn) ==
  {i \in 1..Len(run.calls) : run.calls[i].fn = fn /\ run.calls[i].op = "prompt"}

\* The per-chunk results in chunk-index order, from what the engine answered
\* to each chunk's callback.
SummariesInChunkOrder ==
  [k \in 1..Len(run.tasks) |-> [index |-> k - 1, summary |-> LastAnswer(k).value]]

KeyPointsInChunkOrder ==
  Flat([k \in 1..Len(run.tasks) |-> KeyPointsOfChunk(LastAnswer(k), k - 1)])

RelevanceInChunkOrder ==
  [k \in 1..Len(run.tasks) |->
     [chunk |-> run.chunks[k],
      score |-> RelevanceOfChunk(LastAnswer(k), run.chunks[k], run.question).score,
      reasoning |-> RelevanceOfChunk(LastAnswer(k), run.chunks[k], run.question).reasoning]]

\* C27: in the parallel fan-out stages (key-point extraction, multi-chunk
\* summarization, QA relevance scoring) the fan-in stage is handed the
\* per-chunk results in chunk-index order whatever the order in which the
\* concurrent engine calls completed, so that what it asks for and returns
\* does not depend on the arrival order.
C27_FanInInChunkOrder ==
  /\ run.main.fn = "mergeSummaries" =>
       /\ run.collected = SummariesInChunkOrder
       /\ \A i \in PromptsOf("mergeSummaries") :
            run.calls[i].input.parts =
              [k \in 1..Len(run.tasks) |->
                 [part |-> k, summary |-> LastAnswer(k).value]]
  /\ (run.pipeline = "extractKeyPoints"
      /\ run.main.fn = "deduplicateAndRankKeyPoints") =>
       /\ run.collected = KeyPointsInChunkOrder
       /\ \A i \in PromptsOf("deduplicateAndRankKeyPoints") :
            run.calls[i].input.points = KeyPointsInChunkOrder
  /\ (run.pipeline = "answerQuestion" /\ Len(run.chunks) > 1) =>
       /\ \A i \in PromptsOf("answerFromChunk") :
            LET relevantChunks == RelevantChunks(RelevanceInChunkOrder)
            IN run.calls[i].input.document =
                 [k \in 1..Len(relevantChunks) |->
                    [part |-> relevantChunks[k].index + 1,
                     text |-> relevantChunks[k].text]]
       /\ (run.outcome = Returned(NotFoundAnswer)) =>
            RelevantChunks(RelevanceInChunkOrder) = <<>>

\* The key points of three chunks were handed to the merge after a later
\* chunk's completion arrived before an earlier chunk's.
C27_Witness ==
  /\ run.arrivedOutOfOrder
  /\ run.main.fn = "deduplicateAndRankKeyPoints"
  /\ Len(run.tasks) = 3
  /\ PromptsOf("deduplicateAndRankKeyPoints") # {}
  /\ \E j, k \in 1..Len(run.collected) :
       run.collected[j].chunkIndex # run.collected[k].chunkIndex

\* The requests of the given kind that thread t made to the Summarizer.
SummarizerCalls(t, op) ==
  {i \in 1..Len(run.calls) :
     /\ run.calls[i].api = "Summarizer" /\ run.calls[i].op = op
     /\ run.calls[i].thread = t}

LanguageModelCalls == {i \in 1..Len(run.calls) : run.calls[i].api = "LanguageModel"}

\* The merge completions: the calls of promptAPI by mergeSummaries.
MergeCompletions ==
  {i \in LanguageModelCalls : run.calls[i].op = "create"}

\* What thread t was awaiting when the engine last answered it.
LastAwaited(t) == Thread(run, t).answers[Len(Thread(run, t).answers)].await

\* Thread t makes one summarize call, on the given text: one summarizer is
\* asked for, and summarize is requested once on it when it is there,
\* never more.
SummarizesOnce(t, text) ==
  /\ Cardinality(SummarizerCalls(t, "create")) = 1
  /\ Cardinality(SummarizerCalls(t, "summarize")) <= 1
  /\ \A i \in SummarizerCalls(t, "summarize") : run.calls[i].input = text
  /\ (Thread(run, t).answers # <<>> /\ LastAwaited(t) = "summarizer.summarize") =>
       Cardinality(SummarizerCalls(t, "summarize")) = 1

\* C28: summarization issues exactly one summarize call per chunk: for a
\* single-chunk document one summarize call on the chunk text and no
\* completion call; for N > 1 chunks N summarize calls, each on the chunk
\* text prefixed with its "This is part K of N" context (K = index + 1),
\* followed by exactly one merge completion, issued only after all N
\* summarize calls have succeeded.
C28_OneSummarizeCallPerChunk ==
  (run.pipeline = "summarizeContent" /\ PastValidation) =>
    LET N == Len(run.chunks)
    IN IF N = 1
       THEN /\ run.tasks = <<>>
            /\ SummarizesOnce(0, run.chunks[1].text)
            /\ LanguageModelCalls = {}
       ELSE /\ Len(run.tasks) = N
            /\ SummarizerCalls(0, "create") = {}
            /\ SummarizerCalls(0, "summarize") = {}
            /\ \A k \in 1..N :
                 /\ run.chunks[k].index = k - 1
                 /\ SummarizesOnce(k, [context |-> [empty |-> FALSE, part |-> k, of |-> N],
                                       text |-> run.chunks[k].text])
            /\ \A i \in LanguageModelCalls :
                 /\ run.calls[i].thread = 0
                 /\ run.calls[i].fn = "mergeSummaries"
                 /\ \A k \in 1..N : \A j \in SummarizerCalls(k, "summarize") : j < i
            /\ Cardinality(MergeCompletions) =
                 IF \A k \in 1..N :
                      /\ Awaiting(k, "settled")
                      /\ LastAwaited(k) = "summarizer.summarize"
                      /\ ~LastAnswer(k).threw
                 THEN 1 ELSE 0

\* The three summarize calls of a three-chunk document succeeded, the last
\* chunk's first, and the merge completion followed.
C28_Witness ==
  /\ run.pipeline = "summarizeContent"
  /\ Len(run.chunks) = 3
  /\ run.arrivedOutOfOrder
  /\ Cardinality(MergeCompletions) = 1
  /\ CallOver
  /\ ~run.outcome.threw

\* The model-assisted merge of the key points failed: its session was
\* refused, its prompt was rejected, or its response holds no JSON list.
KeyPointMergeFailed ==
  /\ run.main.fn = "deduplicateAndRankKeyPoints"
  /\ run.outcome # None
  /\ run.main.answers # <<>>
  /\ \/ LastAnswer(0).threw
     \/ parseJSONResponse(LastAnswer(0).value, "array").threw

\* The positions, in the list handed to the merge, of the first point of
\* every lowercased-and-trimmed text.
FirstOccurrences ==
  {i \in 1..Len(run.collected) :
     \A j \in 1..(i - 1) :
       LowerTrim(run.collected[j].point) # LowerTrim(run.collected[i].point)}

ImportanceRank(i) ==
  CHOOSE r \in 1..Len(Importances) : Importances[r] = run.collected[i].importance

\* The place of first occurrence i among the first occurrences ordered by
\* importance rank, input order within a rank.
RankedPosition(i) ==
  1 + Cardinality({j \in FirstOccurrences :
                     \/ ImportanceRank(j) < ImportanceRank(i)
                     \/ ImportanceRank(j) = ImportanceRank(i) /\ j < i})

\* C29: when the model-assisted key-point merge fails (engine error or
\* unparseable response), the result is the local algorithm's output: no
\* two returned points have the same lowercased-and-trimmed text, the first
\* occurrence of each text is the one kept, the points are ordered by
\* importance rank (high, medium, low) with input order preserved among
\* equal ranks, and only the first 10 are returned.
C29_MergeFallsBackToLocalAlgorithm ==
  KeyPointMergeFailed =>
    /\ ~run.outcome.threw
    /\ Len(run.outcome.value) = Min(10, Cardinality(FirstOccurrences))
    /\ \A i \in FirstOccurrences :
         RankedPosition(i) <= 10 =>
           run.outcome.value[RankedPosition(i)] = run.collected[i]

\* The merge of more than ten different points, one of them repeated, gave
\* a response without JSON; ten points came back, not the first ten.
C29_Witness ==
  /\ KeyPointMergeFailed
  /\ ~LastAnswer(0).threw
  /\ Cardinality(FirstOccurrences) > 10
  /\ Cardinality(FirstOccurrences) < Len(run.collected)
  /\ Len(run.outcome.value) = 10
  /\ run.outcome.value # SubSeq(run.collected, 1, 10)

\* The calls of promptAPI by answerFromChunk.
AnsweringCompletions ==
  {i \in 1..Len(run.calls) :
     run.calls[i].fn = "answerFromChunk" /\ run.calls[i].op = "create"}

\* The score assessChunkRelevance gave chunk k.
ScoreOfChunk(k) == run.tasks[k].result.value.score

AllChunksScored == Len(run.tasks) = Len(run.chunks) /\ AllTasksSettled

\* C30: in multi-chunk question answering, the context sent to the
\* answering call contains at most 3 chunks, every included chunk has a
\* score above 0, no excluded chunk has a strictly higher score than an
\* included chunk, each included chunk is labelled with its 1-based
\* position, and exactly one answering completion call is issued.
C30_TopThreeRelevantChunks ==
  (run.pipeline = "answerQuestion" /\ PastValidation /\ Len(run.chunks) > 1) =>
    LET N == Len(run.chunks)
    IN /\ Cardinality(AnsweringCompletions) <= 1
       /\ AnsweringCompletions # {} => AllChunksScored
       /\ AllChunksScored =>
            (AnsweringCompletions # {} <=> \E k \in 1..N : ScoreOfChunk(k) > 0)
       /\ Cardinality(PromptsOf("answerFromChunk")) <= 1
       /\ \A i \in PromptsOf("answerFromChunk") :
            LET context == run.calls[i].input.document
                included == {context[j].part : j \in 1..Len(context)}
            IN /\ Len(context) \in 1..3
               /\ Cardinality(included) = Len(context)
               /\ Len(context) =
                    Min(3, Cardinality({k \in 1..N : ScoreOfChunk(k) > 0}))
               /\ \A j \in 1..Len(context) :
                    /\ context[j].part \in 1..N
                    /\ run.chunks[context[j].part].index = context[j].part - 1
                    /\ context[j].text = run.chunks[context[j].part].text
                    /\ ScoreOfChunk(context[j].part) > 0
               /\ \A k \in (1..N) \ included : \A p \in included :
                    ScoreOfChunk(k) <= ScoreOfChunk(p)

\* The four chunks of a document all scored above 0, the first one lowest;
\* the answering call got the other three.
C30_Witness ==
  /\ run.pipeline = "answerQuestion"
  /\ Len(run.chunks) = 4
  /\ AllChunksScored
  /\ \A k \in 1..4 : ScoreOfChunk(k) > 0
  /\ \A k \in 2..4 : ScoreOfChunk(k) > ScoreOfChunk(1)
  /\ \E i \in PromptsOf("answerFromChunk") :
       /\ Len(run.calls[i].input.document) = 3
       /\ \A j \in 1..3 : run.calls[i].input.document[j].part # 1

\* C31: every relevance score used by the QA ranking stage is an integer in
\* 0..10, both when it comes from the model's JSON response and when it
\* comes from the keyword-overlap fallback.
C31_ScoresWithinZeroToTen ==
  (run.pipeline = "answerQuestion" /\ Len(run.chunks) > 1) =>
    \A t \in 1..Len(run.tasks) :
      Awaiting(t, "settled") => run.tasks[t].result.value.score \in 0..10

\* The relevance scoring of chunk t failed: its session was refused, its
\* prompt was rejected, or the response holds no JSON object.
RelevanceFailed(t) ==
  \/ LastAnswer(t).threw
  \/ LastAnswer(t).value.form = "prose"
  \/ LastAnswer(t).value.value.type = "null"

\* The number of the question's words longer than 3 characters that occur
\* in the text.
QuestionWordsIn(text) ==
  LET words == SplitWords(run.question, <<>>, <<>>)
  IN Cardinality({i \in 1..Len(words) :
                    StrLen(words[i]) > 3 /\ Includes(text, words[i])})

\* The score the response of chunk t's completion states, 0 when it
\* states none.
StatedScore(t) ==
  LET fields == LastAnswer(t).value.value.fields
  IN IF "score" \in DOMAIN fields THEN fields.score ELSE 0

\* C32: in QA relevance scoring each chunk is fault-isolated: a failed
\* completion or unparseable response for one chunk never fails
\* answerQuestion and never changes another chunk's score; the failing
\* chunk is scored by the keyword heuristic, min(10, 2 x the number of
\* question words longer than 3 characters that occur in the chunk text).
C32_RelevanceFaultIsolation ==
  (run.pipeline = "answerQuestion" /\ PastValidation /\ Len(run.chunks) > 1) =>
    /\ \A t \in 1..Len(run.tasks) :
         Awaiting(t, "settled") =>
           /\ ~run.tasks[t].result.threw
           /\ run.tasks[t].result.value.chunk = run.chunks[t]
           /\ run.tasks[t].result.value.score =
                IF RelevanceFailed(t)
                THEN Min(10, 2 * QuestionWordsIn(run.chunks[t].text))
                ELSE StatedScore(t)
    /\ (run.outcome # None /\ run.outcome.threw) =>
         /\ AllChunksScored
         /\ run.main.answers # <<>>
         /\ LastAnswer(0).threw

\* Of three chunks the first was refused its session and the second got
\* prose; both were scored by keywords, differently, the third by the
\* model, and the question was answered.
C32_Witness ==
  /\ run.pipeline = "answerQuestion"
  /\ Len(run.chunks) = 3
  /\ CallOver
  /\ ~run.outcome.threw
  /\ LastAnswer(1).threw
  /\ ~LastAnswer(2).threw
  /\ RelevanceFailed(2)
  /\ ~RelevanceFailed(3)
  /\ ScoreOfChunk(1) > 0
  /\ ScoreOfChunk(2) > ScoreOfChunk(1)
  /\ ScoreOfChunk(3) = 8

\* The engine requests of the given interface and kind.
CallsOf(api, op) ==
  {i \in 1..Len(run.calls) : run.calls[i].api = api /\ run.calls[i].op = op}

\* The completion calls made for a language detection: those that are not
\* made for a translation.
DetectionCompletions == CompletionCalls \ TranslateTextCalls

\* The calls of detectLanguage and of translateText made so far by
\* translateContent.
DetectLanguageInvocations ==
  IF run.sourceLanguageArg = NoLanguage /\ ~Idle /\ ~InvalidContent THEN 1 ELSE 0

TranslateTextInvocations ==
  Len(run.translatedChunks)
  + IF /\ run.main.gateway = "translateText"
       /\ \/ TranslateTextInFlight
          \/ run.outcome # None /\ run.outcome.threw
    THEN 1 ELSE 0

\* C33: translateText and detectLanguage use the dedicated engine when it
\* exists and otherwise fall back to exactly one completion call, returning
\* a string in both cases; when the dedicated engine exists no completion
\* call is issued.
C33_DedicatedEngineOrOneCompletion ==
  run.pipeline = "translateContent" =>
    /\ IF run.hasLanguageDetector
       THEN /\ DetectionCompletions = {}
            /\ Cardinality(CallsOf("LanguageDetector", "create")) =
                 DetectLanguageInvocations
       ELSE /\ CallsOf("LanguageDetector", "create") = {}
            /\ Cardinality(DetectionCompletions) = DetectLanguageInvocations
    /\ IF run.hasTranslator
       THEN /\ TranslateTextCalls \cap CompletionCalls = {}
            /\ Cardinality(CallsOf("Translator", "create")) = TranslateTextInvocations
       ELSE /\ CallsOf("Translator", "create") = {}
            /\ Cardinality(TranslateTextCalls \cap CompletionCalls) =
                 TranslateTextInvocations
    /\ run.sourceLanguage \in Languages \cup {NoLanguage}
    /\ ((run.main.gateway = "translateText" \/ run.outcome # None)
        /\ ~InvalidContent) => run.sourceLanguage \in Languages
    /\ \A k \in 1..Len(run.translatedChunks) :
         \E j \in 1..Len(run.main.answers) :
           /\ ~run.main.answers[j].result.threw
           /\ run.main.answers[j].await =
                IF run.hasTranslator THEN "translator.translate" ELSE "session.prompt"
           /\ run.translatedChunks[k].translatedText = run.main.answers[j].result.value

\* With a language detector and without a translator, the language of a
\* three-chunk document was detected and the chunks translated by
\* completions.
C33_Witness ==
  /\ run.pipeline = "translateContent"
  /\ run.hasLanguageDetector /\ ~run.hasTranslator
  /\ run.sourceLanguageArg = NoLanguage
  /\ Len(run.translatedChunks) = 3
  /\ CallOver
  /\ ~run.outcome.threw
  /\ Cardinality(CompletionCalls) = 3

\* The engine requests thread t made.
CallsBy(t) == {i \in 1..Len(run.calls) : run.calls[i].thread = t}

\* The completion calls made by function fn.
CompletionsOf(fn) == {i \in CompletionCalls : run.calls[i].fn = fn}

\* The most gateway operations the main function of a pipeline makes: one
\* per chunk and a detection in translateContent, one otherwise.
MainOperationsAtMost ==
  IF run.pipeline = "translateContent"
  THEN Len(run.chunks) + DetectLanguageInvocations
  ELSE 1

\* C34: no engine call is retried: a gateway operation asks for one engine
\* object and makes at most one request on it, a pipeline makes at most one
\* engine call per chunk per stage (key-point extraction on N chunks makes
\* exactly N extraction completions and at most one merge completion),
\* also when calls fail.
C34_NoRetry ==
  /\ \A x \in 1..Len(run.sessions) :
       Cardinality({i \in 1..Len(run.calls) : run.calls[i].object = x}) <= 1
  /\ \A t \in 1..Len(run.tasks) :
       /\ Cardinality({i \in CallsBy(t) : run.calls[i].op = "create"}) = 1
       /\ Cardinality({i \in CallsBy(t) : run.calls[i].op # "create"}) <= 1
  /\ Cardinality({i \in CallsBy(0) : run.calls[i].op = "create"}) <= MainOperationsAtMost
  /\ Cardinality({i \in CallsBy(0) : run.calls[i].op # "create"}) <= MainOperationsAtMost
  /\ (run.pipeline = "extractKeyPoints" /\ PastValidation) =>
       /\ Cardinality(CompletionsOf("extractKeyPointsFromChunk")) = Len(run.chunks)
       /\ Cardinality(PromptsOf("extractKeyPointsFromChunk")) <= Len(run.chunks)
       /\ Cardinality(CompletionsOf("deduplicateAndRankKeyPoints")) <= 1
       /\ Cardinality(PromptsOf("deduplicateAndRankKeyPoints")) <= 1
       /\ CompletionCalls = CompletionsOf("extractKeyPointsFromChunk")
                             \cup CompletionsOf("deduplicateAndRankKeyPoints")

\* Key-point extraction on three chunks is over: one chunk was refused its
\* session, one had its prompt rejected, and the merge prompt was rejected.
C34_Witness ==
  /\ run.pipeline = "extractKeyPoints"
  /\ Len(run.chunks) = 3
  /\ CallOver
  /\ \E t \in 1..3 : LastAnswer(t).threw /\ LastAwaited(t) = "LanguageModel.create"
  /\ \E t \in 1..3 : LastAnswer(t).threw /\ LastAwaited(t) = "session.prompt"
  /\ Cardinality(PromptsOf("deduplicateAndRankKeyPoints")) = 1
  /\ LastAnswer(0).threw

\* The engine requests made to detect a language.
DetectionStarts == DetectionCompletions \cup CallsOf("LanguageDetector", "create")

\* detectLanguage has returned to translateContent.
DetectionOver ==
  /\ run.sourceLanguageArg = NoLanguage
  /\ run.main.gateway = "translateText" \/ run.outcome # None
  /\ ~InvalidContent

\* The detection failed: the detector or the session was refused, or the
\* detection or the prompt was rejected. The first answer the main function
\* gets is to the creation, the second, when there was a creation, to the
\* detection.
DetectionFailed ==
  /\ DetectionOver
  /\ run.main.answers # <<>>
  /\ \/ run.main.answers[1].result.threw
     \/ run.main.answers[2].result.threw

\* C35: the source language is detected at most once per translateContent
\* call and never when a source language is supplied; detectLanguage never
\* fails and yields 'en' on any detection failure, so with a failed
\* detection and target 'en' the input is returned untranslated with the
\* already-in-target-language note.
C35_DetectionOnceAndDefaultsToEnglish ==
  run.pipeline = "translateContent" =>
    /\ Cardinality(DetectionStarts) <= 1
    /\ run.sourceLanguageArg # NoLanguage => DetectionStarts = {}
    /\ DetectionOver => run.sourceLanguage \in Languages
    /\ DetectionFailed => run.sourceLanguage = "en"
    /\ (DetectionFailed /\ run.targetLanguage = "en") =>
         /\ run.outcome =
              Returned([translatedText |-> run.content, sourceLanguage |-> "en",
                        targetLanguage |-> "en",
                        note |-> "Content is already in the target language"])
         /\ TranslateTextCalls = {}
         /\ run.chunkings = 0

\* The detector rejected the detection of a document to be put into
\* English; the document came back with the note.
C35_Witness ==
  /\ run.pipeline = "translateContent"
  /\ run.hasLanguageDetector
  /\ run.sourceLanguageArg = NoLanguage
  /\ run.targetLanguage = "en"
  /\ Len(run.main.answers) = 2
  /\ run.main.answers[2].await = "detector.detect"
  /\ run.main.answers[2].result.threw
  /\ run.outcome # None
  /\ ~run.outcome.threw
  /\ "note" \in DOMAIN run.outcome.value
  /\ run.outcome.value.translatedText = run.content

\* The summarize call of chunk t of a multi-chunk document failed.
SummarizeFailed(t) ==
  /\ run.pipeline = "summarizeContent"
  /\ Len(run.chunks) > 1
  /\ t \in 1..Len(run.tasks)
  /\ Awaiting(t, "settled")
  /\ run.tasks[t].result.threw

\* C36: multi-chunk summarization has no per-chunk fault isolation: if any
\* one chunk's summarize call fails, summarizeContent fails with a
\* "Summarization failed:" error, no merge completion is issued, and no
\* partial summary is returned.
C36_SummarizationFailsAsAWhole ==
  (\E t \in 1..Len(run.tasks) : SummarizeFailed(t)) =>
    /\ run.outcome # None
    /\ run.outcome.threw
    /\ Head(run.outcome.error.prefix) = SummarizationFailed
    /\ LanguageModelCalls = {}
    /\ run.main.answers = <<>>

\* Of three chunks the second's summarize call was rejected and the others
\* gave their summaries; the call is over.
C36_Witness ==
  /\ SummarizeFailed(2)
  /\ Len(run.chunks) = 3
  /\ CallOver
  /\ LastAwaited(2) = "summarizer.summarize"
  /\ ~run.tasks[1].result.threw
  /\ ~run.tasks[3].result.threw

\* How many of the main function's answers were to the detection.
DetectionAnswers ==
  IF run.sourceLanguageArg # NoLanguage \/ run.main.answers = <<>> THEN 0
  ELSE IF run.main.answers[1].result.threw THEN 1
  ELSE 2

\* The positions of the rejections among the answers to translateText.
TranslationRejections ==
  {j \in (DetectionAnswers + 1)..Len(run.main.answers) :
     run.main.answers[j].result.threw}

\* C37: if the translation of chunk k fails, translateContent fails with a
\* "Translation failed:" error, no chunk with an index greater than k is
\* ever sent to the translation engine, and no partial translation is
\* returned.
C37_TranslationStopsAtFailure ==
  (run.pipeline = "translateContent" /\ TranslationRejections # {}) =>
    /\ TranslationRejections = {Len(run.main.answers)}
    /\ run.outcome # None
    /\ run.outcome.threw
    /\ Head(run.outcome.error.prefix) = TranslationFailed
    /\ ~TranslateTextInFlight
    /\ Cardinality(TranslateTextCalls) = Len(run.translatedChunks) + 1
    /\ Cardinality(TranslationCalls) <= Len(run.translatedChunks) + 1

\* The translation of the second of three chunks was rejected after the
\* first was translated.
C37_Witness ==
  /\ run.pipeline = "translateContent"
  /\ Len(run.chunks) = 3
  /\ Len(run.translatedChunks) = 1
  /\ TranslationRejections # {}
  /\ LastAwaited(0) \in {"translator.translate", "session.prompt"}
  /\ CallOver

\* ------------------------------------------------------------------------
\* The background worker receiving DETECTION_FOUND messages while tabs
\* navigate and close
\* ------------------------------------------------------------------------
\* No library function is called.
LibraryIdle ==
  /\ content = <<>>
  /\ chunkResult = None
  /\ validation = None
  /\ run = NoRun
  /\ dedup = NoDedup
  /\ call = NoCall

InitDetection ==
  /\ LibraryIdle
  /\ \E stored \in {"undefined", "false"} :
       background = [NoBackground EXCEPT !.autoDetectionEnabled = stored]
  /\ sidepanel = NoSidePanel
  /\ onboarding = NoOnboarding

\* The handler h of handleDetection ends.
Returned_(h, why) ==
  [background.handlers EXCEPT ![h].pc = "returned", ![h].end = why]

\* The handler h of handleDetection waits for the next browser call.
Awaits(h, api) == [background.handlers EXCEPT ![h].pc = api]

\* How many times tabs navigated or closed.
Resets ==
  LET RECURSIVE Sum(_)
      Sum(S) == IF S = {} THEN 0
                ELSE LET t == CHOOSE x \in S : TRUE
                     IN background.resets[t] + Sum(S \ {t})
  IN Sum(Tabs)

\* A DETECTION_FOUND message arrives: handleDetection runs up to its first
\* await.
OnMessageDetectionFound ==
  \E tab \in (Tabs \ background.closed) \cup {NoTab} :
    /\ Len(background.handlers) < MaxMessages
    /\ background' =
         IF tab = NoTab THEN background
         ELSE [background EXCEPT !.handlers =
                 Append(@, [tab |-> tab, detections |-> PageDetections[tab],
                            pc |-> "storage.local.get", end |-> ""])]
    /\ UNCHANGED <<library, sidepanel, onboarding>>

\* chrome.storage.local.get settles: handleDetection checks the setting and
\* notifiedTabs, remembers the tab and asks for the badge.
StorageLocalGet ==
  \E h \in 1..Len(background.handlers), rejected \in BOOLEAN :
    LET tab == background.handlers[h].tab
    IN /\ background.handlers[h].pc = "storage.local.get"
       /\ background' =
            IF rejected THEN [background EXCEPT !.handlers = Returned_(h, "failed")]
            ELSE IF background.autoDetectionEnabled = "false"
              THEN [background EXCEPT !.handlers = Returned_(h, "disabled")]
            ELSE IF tab \in background.notifiedTabs
              THEN [background EXCEPT !.handlers = Returned_(h, "already notified")]
            ELSE [background EXCEPT
                    !.notifiedTabs = MarkNotified(@, tab),
                    !.handlers = Awaits(h, "action.setBadgeText")]
       /\ UNCHANGED <<library, sidepanel, onboarding>>

\* chrome.action.setBadgeText settles.
ActionSetBadgeText ==
  \E h \in 1..Len(background.handlers), rejected \in BOOLEAN :
    LET tab == background.handlers[h].tab
    IN /\ background.handlers[h].pc = "action.setBadgeText"
       /\ background' =
            IF rejected THEN [background EXCEPT !.handlers = Returned_(h, "failed")]
            ELSE [background EXCEPT
                    !.badgeText[tab] = "!",
                    !.badges[tab] = @ + 1,
                    !.handlers = Awaits(h, "action.setBadgeBackgroundColor")]
       /\ UNCHANGED <<library, sidepanel, onboarding>>

\* chrome.action.setBadgeBackgroundColor settles.
ActionSetBadgeBackgroundColor ==
  \E h \in 1..Len(background.handlers), rejected \in BOOLEAN :
    /\ background.handlers[h].pc = "action.setBadgeBackgroundColor"
    /\ background' =
         IF rejected THEN [background EXCEPT !.handlers = Returned_(h, "failed")]
         ELSE [background EXCEPT !.handlers = Awaits(h, "notifications.create")]
    /\ UNCHANGED <<library, sidepanel, onboarding>>

\* chrome.notifications.create settles.
NotificationsCreate ==
  \E h \in 1..Len(background.handlers), rejected \in BOOLEAN :
    LET tab == background.handlers[h].tab
    IN /\ background.handlers[h].pc = "notifications.create"
       /\ background' =
            IF rejected THEN [background EXCEPT !.handlers = Returned_(h, "failed")]
            ELSE [background EXCEPT
                    !.notifications[tab] =
                       Append(@, notificationConfig(background.handlers[h].detections)),
                    !.visible = @ \cup {tab},
                    !.handlers = Returned_(h, "notified")]
       /\ UNCHANGED <<library, sidepanel, onboarding>>

\* chrome.tabs.onRemoved: the tab is forgotten and its notification cleared.
TabsOnRemoved ==
  \E tabId \in Tabs \ background.closed :
    /\ Resets < MaxResets
    /\ background' =
         [background EXCEPT
            !.notifiedTabs = @ \ {tabId},
            !.visible = @ \ {tabId},
            !.closed = @ \cup {tabId},
            !.resets[tabId] = @ + 1]
    /\ UNCHANGED <<library, sidepanel, onboarding>>

\* chrome.tabs.onUpdated: when the change carries a url, the tab is
\* forgotten and its badge cleared.
TabsOnUpdated ==
  \E tabId \in Tabs \ background.closed, url \in BOOLEAN :
    /\ Resets < MaxResets
    /\ background' =
         IF url
         THEN [background EXCEPT
                 !.notifiedTabs = @ \ {tabId},
                 !.badgeText[tabId] = "",
                 !.resets[tabId] = @ + 1]
         ELSE background
    /\ UNCHANGED <<library, sidepanel, onboarding>>

NextDetection ==
  \/ OnMessageDetectionFound
  \/ StorageLocalGet
  \/ ActionSetBadgeText
  \/ ActionSetBadgeBackgroundColor
  \/ NotificationsCreate
  \/ TabsOnRemoved
  \/ TabsOnUpdated

SpecDetection == InitDetection /\ [][NextDetection]_vars

\* ------------------------------------------------------------------------
\* Properties of the detection notifications (checked under SpecDetection)
\* ------------------------------------------------------------------------
\* The handlers of handleDetection for a tab that ended in a given way.
HandlersEnded(tab, why) ==
  {h \in 1..Len(background.handlers) :
     /\ background.handlers[h].tab = tab
     /\ background.handlers[h].end = why}

\* C38: for any number and interleaving of DETECTION_FOUND messages from a
\* tab, the worker creates at most one notification and one badge for the
\* tab, and one more for each time the tab navigated to another URL or
\* was closed.
C38_OneNotificationPerTabAndVisit ==
  \A tab \in Tabs :
    /\ Len(background.notifications[tab]) <= 1 + background.resets[tab]
    /\ background.badges[tab] <= 1 + background.resets[tab]

\* Three messages of one tab were handled: one was notified, the next was
\* dropped because the tab was remembered, and after the tab navigated the
\* third was notified again.
C38_Witness ==
  \E tab \in Tabs :
    /\ background.resets[tab] = 1
    /\ tab \notin background.closed
    /\ HandlersEnded(tab, "notified") = {1, 3}
    /\ HandlersEnded(tab, "already notified") = {2}
    /\ Len(background.notifications[tab]) = 2


\* ------------------------------------------------------------------------
\* The side panel receiving page contents, clicks and setting changes while
\* its analyses wait for the engines
\* ------------------------------------------------------------------------
InitPanel ==
  /\ LibraryIdle
  /\ background = NoBackground
  /\ \E auto \in BOOLEAN : sidepanel = [NoSidePanel EXCEPT !.autoAnalyze = auto]
  /\ onboarding = NoOnboarding

\* An async function of the side panel waiting for a call: the handler it
\* runs under, the call, and the content and summary type given to the call.
Waiting(entry, pc, arg, type) == [entry |-> entry, pc |-> pc, arg |-> arg, type |-> type]

\* The waiting functions without the i-th.
Resumed(sp, i) ==
  [sp EXCEPT !.threads = SubSeq(@, 1, i - 1) \o SubSeq(@, i + 1, Len(@))]

\* The handler returns; triggerReanalysis resets the manual flag in its
\* finally block.
HandlerReturns(sp, entry) ==
  IF entry = "triggerReanalysis" THEN [sp EXCEPT !.isManualTrigger = FALSE] ELSE sp

\* generateSuggestedQuestions up to its await.
generateSuggestedQuestions(sp, entry) ==
  IF sp.pageContent = "" THEN HandlerReturns(sp, entry)
  ELSE [sp EXCEPT !.threads =
          Append(@, Waiting(entry, "getSuggestedQuestions", sp.pageContent, ""))]

\* What follows generateSummary: nothing for the change listener, the
\* suggested questions for analyzeContent.
AfterGenerateSummary(sp, entry) ==
  IF entry = "change" THEN sp ELSE generateSuggestedQuestions(sp, entry)

\* generateSummary up to its await.
generateSummary(sp, entry) ==
  IF sp.pageContent = "" THEN AfterGenerateSummary(sp, entry)
  ELSE [sp EXCEPT
          !.summary = Display("spinner", "", ""),
          !.threads =
             Append(@, Waiting(entry, "summarizeContent", sp.pageContent, sp.summaryType))]

\* generateKeyPoints up to its await.
generateKeyPoints(sp, entry) ==
  [sp EXCEPT
     !.keypoints = Display("spinner", "", ""),
     !.threads = Append(@, Waiting(entry, "extractKeyPoints", sp.pageContent, ""))]

\* analyzeContent up to its first await.
analyzeContent(sp, entry) ==
  IF sp.pageContent = "" THEN HandlerReturns(sp, entry)
  ELSE generateKeyPoints(sp, entry)

\* onContentChange up to its first await.
onContentChange(sp, newContent) ==
  IF sp.pageContent = newContent THEN sp
  ELSE LET changed == [sp EXCEPT !.pageContent = newContent]
       IN IF newContent = "" THEN [changed EXCEPT !.warning = "NO_CONTENT"]
          ELSE LET cleared == [changed EXCEPT !.warning = ""]
               IN IF cleared.isManualTrigger \/ cleared.autoAnalyze
                  THEN analyzeContent([cleared EXCEPT !.isManualTrigger = FALSE],
                                      "onContentChange")
                  ELSE [cleared EXCEPT
                          !.keypoints = Display("ready", "", ""),
                          !.summary = Display("ready", "", "")]

\* triggerReanalysis up to its first await.
triggerReanalysis(sp) ==
  LET manual == [sp EXCEPT !.isManualTrigger = TRUE]
  IN IF manual.pageContent = ""
     THEN [manual EXCEPT !.threads =
             Append(@, Waiting("triggerReanalysis", "tabs.query", "", ""))]
     ELSE analyzeContent(manual, "triggerReanalysis")

\* The catch and finally of triggerReanalysis.
ReanalysisFailed(sp) ==
  [sp EXCEPT !.warning = "Re-analysis failed", !.isManualTrigger = FALSE]

\* chrome.storage.session reports a page content: onContentChange runs.
StorageSessionOnChanged ==
  \E newContent \in Contents :
    /\ sidepanel.events < MaxEvents
    /\ sidepanel' = onContentChange([sidepanel EXCEPT !.events = @ + 1], newContent)
    /\ UNCHANGED <<library, background, onboarding>>

\* The re-analyze button is clicked.
ClickReanalyze ==
  /\ sidepanel.events < MaxEvents
  /\ sidepanel' = triggerReanalysis([sidepanel EXCEPT !.events = @ + 1])
  /\ UNCHANGED <<library, background, onboarding>>

\* The summary type is changed: the change listener runs generateSummary.
ChangeSummarySetting ==
  \E type \in SummaryTypes \ {sidepanel.summaryType} :
    /\ sidepanel.events < MaxEvents
    /\ sidepanel' =
         generateSummary([sidepanel EXCEPT !.events = @ + 1, !.summaryType = type],
                         "change")
    /\ UNCHANGED <<library, background, onboarding>>

\* extractKeyPoints settles: generateKeyPoints shows the key points or the
\* error, and analyzeContent goes on to generateSummary.
ExtractKeyPointsSettles ==
  \E i \in 1..Len(sidepanel.threads), rejected \in BOOLEAN :
    LET w == sidepanel.threads[i]
        shown == [Resumed(sidepanel, i) EXCEPT
                    !.keypoints = IF rejected THEN Display("error", "", "")
                                  ELSE Display("markdown", w.arg, "")]
    IN /\ w.pc = "extractKeyPoints"
       /\ sidepanel' = generateSummary(shown, w.entry)
       /\ UNCHANGED <<library, background, onboarding>>

\* summarizeContent settles: generateSummary shows the summary or the error.
SummarizeContentSettles ==
  \E i \in 1..Len(sidepanel.threads), rejected \in BOOLEAN :
    LET w == sidepanel.threads[i]
        shown == [Resumed(sidepanel, i) EXCEPT
                    !.summary = IF rejected THEN Display("error", "", "")
                                ELSE Display("markdown", w.arg, w.type)]
    IN /\ w.pc = "summarizeContent"
       /\ sidepanel' = AfterGenerateSummary(shown, w.entry)
       /\ UNCHANGED <<library, background, onboarding>>

\* getSuggestedQuestions settles: analyzeContent returns.
GetSuggestedQuestionsSettles ==
  \E i \in 1..Len(sidepanel.threads) :
    LET w == sidepanel.threads[i]
    IN /\ w.pc = "getSuggestedQuestions"
       /\ sidepanel' = HandlerReturns(Resumed(sidepanel, i), w.entry)
       /\ UNCHANGED <<library, background, onboarding>>

\* chrome.tabs.query settles in triggerReanalysis.
TabsQuerySettles ==
  \E i \in 1..Len(sidepanel.threads), outcome \in {"rejected", "no tab", "tab"} :
    LET w == sidepanel.threads[i]
        sp == Resumed(sidepanel, i)
    IN /\ w.pc = "tabs.query"
       /\ sidepanel' =
            IF outcome = "rejected" THEN ReanalysisFailed(sp)
            ELSE IF outcome = "no tab" THEN HandlerReturns(sp, w.entry)
            ELSE [sp EXCEPT !.threads =
                    Append(@, Waiting(w.entry, "scripting.executeScript", "", ""))]
       /\ UNCHANGED <<library, background, onboarding>>

\* chrome.scripting.executeScript settles in triggerReanalysis.
ExecuteScriptSettles ==
  \E i \in 1..Len(sidepanel.threads), outcome \in {"rejected"} \cup Contents :
    LET w == sidepanel.threads[i]
        sp == Resumed(sidepanel, i)
    IN /\ w.pc = "scripting.executeScript"
       /\ sidepanel' =
            IF outcome = "rejected" THEN ReanalysisFailed(sp)
            ELSE IF outcome = "" THEN HandlerReturns(sp, w.entry)
            ELSE [sp EXCEPT
                    !.pageContent = outcome,
                    !.threads = Append(@, Waiting(w.entry, "setInSession", outcome, ""))]
       /\ UNCHANGED <<library, background, onboarding>>

\* setInSession settles in triggerReanalysis: analyzeContent runs.
SetInSessionSettles ==
  \E i \in 1..Len(sidepanel.threads) :
    LET w == sidepanel.threads[i]
    IN /\ w.pc = "setInSession"
       /\ sidepanel' = analyzeContent(Resumed(sidepanel, i), w.entry)
       /\ UNCHANGED <<library, background, onboarding>>

NextPanel ==
  \/ StorageSessionOnChanged
  \/ ClickReanalyze
  \/ ChangeSummarySetting
  \/ ExtractKeyPointsSettles
  \/ SummarizeContentSettles
  \/ GetSuggestedQuestionsSettles
  \/ TabsQuerySettles
  \/ ExecuteScriptSettles
  \/ SetInSessionSettles

SpecPanel == InitPanel /\ [][NextPanel]_vars

\* ------------------------------------------------------------------------
\* Properties of the side panel (checked under SpecPanel)
\* ------------------------------------------------------------------------
\* No analysis of the side panel waits for an engine.
AnalysesFinished == sidepanel.threads = <<>>

\* The display shows a result computed from another content than the
\* current pageContent.
Stale(display) == display.kind = "markdown" /\ display.from # sidepanel.pageContent

\* C39: once all in-flight analyses have finished, the key points and the
\* summary the side panel displays were computed from the current
\* pageContent, for any interleaving of content changes, setting changes
\* and re-analysis clicks with the pending engine calls.
C39_DisplayedResultsAreCurrent ==
  AnalysesFinished => ~Stale(sidepanel.keypoints) /\ ~Stale(sidepanel.summary)


\* ------------------------------------------------------------------------
\* The onboarding page: steps, and the saving of the form
\* ------------------------------------------------------------------------
InitOnboarding ==
  /\ LibraryIdle
  /\ background = NoBackground
  /\ sidepanel = NoSidePanel
  /\ \E name \in UserNames, language \in FormLanguages, theme \in FormThemes :
       onboarding = [NoOnboarding EXCEPT !.userName = name,
                                         !.defaultLanguage = language,
                                         !.themePreference = theme]

\* nextStep.
NextStep ==
  /\ onboarding.pc # "redirected"
  /\ onboarding.currentStep < LastStep
  /\ onboarding' = [onboarding EXCEPT !.currentStep = @ + 1]
  /\ UNCHANGED <<library, background, sidepanel>>

\* prevStep.
PrevStep ==
  /\ onboarding.pc # "redirected"
  /\ onboarding.currentStep > 1
  /\ onboarding' = [onboarding EXCEPT !.currentStep = @ - 1]
  /\ UNCHANGED <<library, background, sidepanel>>

\* The completion button of the last step is clicked: completeOnboarding
\* disables it, gathers the form and asks the storage to save.
CompleteOnboarding ==
  /\ onboarding.pc = "idle"
  /\ onboarding.currentStep = LastStep
  /\ ~onboarding.disabled
  /\ onboarding.saves < MaxSaves
  /\ onboarding' = [onboarding EXCEPT !.pc = "storage.local.set",
                                       !.disabled = TRUE,
                                       !.saves = @ + 1]
  /\ UNCHANGED <<library, background, sidepanel>>

\* chrome.storage.local.set settles: setInStorage returns whether it
\* succeeded, and completeOnboarding redirects or alerts and re-enables the
\* button.
StorageLocalSet ==
  \E success \in BOOLEAN :
    /\ onboarding.pc = "storage.local.set"
    /\ onboarding' =
         IF success
         THEN [onboarding EXCEPT
                 !.storage = Spread(@, OnboardingSettings(onboarding.userName,
                                                          onboarding.defaultLanguage,
                                                          onboarding.themePreference)),
                 !.pc = "redirected"]
         ELSE [onboarding EXCEPT !.pc = "idle", !.disabled = FALSE, !.alerts = @ + 1]
    /\ UNCHANGED <<library, background, sidepanel>>

NextOnboarding == NextStep \/ PrevStep \/ CompleteOnboarding \/ StorageLocalSet

SpecOnboarding == InitOnboarding /\ [][NextOnboarding]_vars

\* ------------------------------------------------------------------------
\* Properties of the onboarding (checked under SpecOnboarding)
\* ------------------------------------------------------------------------
\* The settings that are not entered in the onboarding form.
RemainingSettings ==
  DOMAIN DEFAULT_SETTINGS \ {"defaultLanguage", "themePreference"}

\* C40: after a successful save, the stored default language and theme
\* preference equal the values selected in the onboarding form,
\* onboardingComplete is true, and the remaining settings hold their
\* defaults.
C40_SavedPreferencesAreTheEnteredOnes ==
  onboarding.pc = "redirected" =>
    /\ onboarding.storage.defaultLanguage = ValueOr(onboarding.defaultLanguage, "en")
    /\ onboarding.storage.themePreference = ValueOr(onboarding.themePreference, "auto")
    /\ onboarding.storage.onboardingComplete = "true"
    /\ \A k \in RemainingSettings : onboarding.storage[k] = DEFAULT_SETTINGS[k]


\* ------------------------------------------------------------------------
\* Properties of deduplicateSimple (checked under SpecDedup)
\* ------------------------------------------------------------------------
\* C16: deduplicateSimple applied to its own result gives that result again,
\* for every key-point list with importances high, medium and low.
C16_DeduplicateSimpleIdempotent ==
  Len(dedup.results) = 2 => dedup.results[2] = dedup.results[1]

\* A list of more than ten points with a repetition was cut to ten, reordered,
\* and deduplicated again.
C16_Witness ==
  /\ Len(dedup.results) = 2
  /\ Len(dedup.keyPoints) > 10
  /\ Len(dedup.results[1]) = 10
  /\ dedup.results[1] # SubSeq(dedup.keyPoints, 1, 10)
  /\ \E i \in 2..Len(dedup.keyPoints) :
       LowerTrim(dedup.keyPoints[i].point) = LowerTrim(dedup.keyPoints[1].point)

\* ------------------------------------------------------------------------
\* Properties of formatKeyPoints (checked under SpecFormat)
\* ------------------------------------------------------------------------
Formatted == call.fn = "formatKeyPoints" /\ call.result # None

\* The lines of the text returned.
Lines == call.result.value

\* The section an input point belongs to.
SectionOfPoint(kp) == IF kp.category = "" THEN "other" ELSE kp.category

\* The positions of the header lines of the result, and of the bullet lines
\* that stand under the header at position h.
HeaderPositions == {i \in 1..Len(Lines) : Lines[i].line = "header"}

BulletsUnder(h) ==
  {i \in (h + 1)..Len(Lines) :
     /\ Lines[i].line = "bullet"
     /\ \A j \in (h + 1)..i : Lines[j].line # "header"}

\* The k-th smallest member of a set of positions.
Nth(positions, k) ==
  CHOOSE i \in positions : Cardinality({j \in positions : j < i}) = k - 1

\* The positions in the input of the points of a section.
InputPositions(keyPoints, section) ==
  {i \in 1..Len(keyPoints) : SectionOfPoint(keyPoints[i]) = section}

\* C22: formatKeyPoints returns 'No key points found.' for an empty or
\* missing list; otherwise every input point appears exactly once, under the
\* header of its category (a point without category under that of 'other'),
\* the sections in the order in which their categories first occur and the
\* points of a section in input order.
C22_FormatGroupsByCategory ==
  Formatted =>
    LET keyPoints == call.args[1]
    IN IF keyPoints = Null \/ keyPoints = <<>>
       THEN Lines = <<[line |-> "text", text |-> "No key points found."]>>
       ELSE LET sections == {SectionOfPoint(keyPoints[i]) : i \in 1..Len(keyPoints)}
            IN /\ Cardinality(HeaderPositions) = Cardinality(sections)
               /\ Cardinality({i \in 1..Len(Lines) :
                                Lines[i].line = "bullet"}) = Len(keyPoints)
               /\ Lines[1].line = "header"
               /\ \A section \in sections :
                    LET first == Nth(InputPositions(keyPoints, section), 1)
                        \* sections that first occur before this one
                        earlier == {SectionOfPoint(keyPoints[i]) : i \in 1..(first - 1)}
                        h == Nth(HeaderPositions, Cardinality(earlier) + 1)
                        inputs == InputPositions(keyPoints, section)
                    IN /\ Lines[h].label =
                            (CASE section = "privacy" -> "Privacy"
                               [] section = "legal" -> "Legal Terms"
                               [] section = "other" -> "General"
                               [] OTHER -> section)
                       /\ Cardinality(BulletsUnder(h)) = Cardinality(inputs)
                       /\ \A k \in 1..Cardinality(inputs) :
                            Lines[Nth(BulletsUnder(h), k)].point =
                              keyPoints[Nth(inputs, k)].point

\* Four points of three sections, the first without category, one section
\* holding two different texts, were formatted.
C22_Witness ==
  /\ Formatted
  /\ call.args[1] # Null
  /\ Len(call.args[1]) = 4
  /\ call.args[1][1].category = ""
  /\ call.args[1][2].category = "privacy"
  /\ call.args[1][3].category = "other"
  /\ call.args[1][4].category = "legal"
  /\ call.args[1][1].point # call.args[1][3].point
  /\ Cardinality(HeaderPositions) = 3

====
